---- MODULE Spec2Model ----
(***************************************************************************)
(* Model of the myfye portfolio builder: the strategy tables and profile   *)
(* adjustment, the trade plan generator, PortfolioBuilderAgent's           *)
(* executeAllocation loop, and the three swap pipelines of the repository  *)
(* (TradingClient.executeSwap, AgentWallet.swap and                        *)
(* ClaudePortfolioAgent.executeSwap).                                      *)
(*                                                                         *)
(* Every `await` of the source is one action: the external call and the    *)
(* answer it gets are taken together, the answer being drawn from the set  *)
(* of answers the external service can give.  The synchronous functions    *)
(* (plan generation, drift, health score) are applied one at a time to     *)
(* arguments drawn from bounded sets, under PureSpec.  USD values are      *)
(* integers; holdings are multiples of amounts that make every target      *)
(* amount a whole number.                                                  *)
(*                                                                         *)
(* Five further components have a specification of their own:              *)
(* TradingClient.waitForConfirmation (ConfirmationSpec), the monitoring    *)
(* timer and handleRebalance of AutonomousPortfolioManager (MonitorSpec),  *)
(* the token and price caches of MarketDataClient (MarketSpec), the        *)
(* configuration of PortfolioBuilderAgent with rebalanceIfNeeded           *)
(* (BuilderSpec), and the wallet fields of AgentWallet (WalletSpec).       *)
(***************************************************************************)
EXTENDS Integers, Sequences, FiniteSets, TLC

\* Bound: each asset category of the snapshot holds 0..MaxHolding hundreds of USD.
MaxHolding == 1

\* Bound: each asset category of a snapshot the plan generator is applied to
\* holds 0..MaxUnits units of 20 USD.
MaxUnits == 6

\* The longest explicit confirmation timeout, and the longest a request to the
\* network takes, in poll intervals.
MaxTimeout == 3
MaxLatency == 2

\* The monitor: timers set over a run, firings of the timer, and rebalance
\* actions of one handleRebalance.
MaxTimers == 2
MaxTicks == 2
MaxActions == 2

\* The market data client: calls made on it, and the time that passes, in
\* units of 10 s.
MaxCalls == 3
MaxClock == 3

\* The method calls made on one builder agent.
MaxBuilderCalls == 2

\* The method calls made on one AgentWallet.
MaxWalletOps == 3

VARIABLES
    op,               \* entry point in progress: none | executeAllocation | swap | executeSwap
    pc,               \* position of that entry point (the await it is suspended at)
    config,           \* PortfolioBuilderAgent.config
    plan,             \* ExecutionPlan built by createExecutionPlan
    sortedTrades,     \* executeAllocation: plan.trades sorted by priority
    idx,              \* executeAllocation: index of the trade of the for loop (1-based)
    steps,            \* executeAllocation: steps
    errors,           \* executeAllocation: errors
    totalValueTraded, \* executeAllocation: totalValueTraded
    quote,            \* the swap in progress: the quote accepted by its quote stage
    signature,        \* the swap in progress: signature returned by sendRawTransaction
    calls,            \* log of the external stage calls issued so far
    swapResult,       \* result returned by AgentWallet.swap / ClaudePortfolioAgent.executeSwap
    result,           \* ExecutionResult returned by executeAllocation
    fn,               \* the synchronous function applied last ("none": none yet)
    args,             \* the arguments it was applied to
    ret,              \* the value it returned
    confirmation,     \* the activation of TradingClient.waitForConfirmation
    isMonitoring,     \* AutonomousPortfolioManager.isMonitoring
    monitorInterval,  \* AutonomousPortfolioManager.monitorInterval (0 is null)
    timers,           \* the interval timers that are set and not cleared
    ticks,            \* the activations of the monitor's interval callback
    now,              \* Date.now() as MarketDataClient reads it, in units of 10 s
    tokenCache,       \* MarketDataClient.tokenCache
    priceCache,       \* MarketDataClient.priceCache
    cleared,          \* clearPriceCache was called and no getTokenPrice since
    lookups,          \* the getToken and getTokenPrice calls made on the client
    builder,          \* a long-lived PortfolioBuilderAgent: what happened to it so far
    lastUpdate,       \* the last updateConfig call: its argument, the configuration before
    builderCall,      \* the method call in progress on that agent
    rebalance,        \* the last rebalanceIfNeeded call: what it read, did and returned
    walletId,         \* AgentWallet.walletId ("" is null)
    walletAddress,    \* AgentWallet.walletAddress ("" is null)
    walletOps         \* the method calls made on that AgentWallet

vars == <<op, pc, config, plan, sortedTrades, idx, steps, errors, totalValueTraded,
          quote, signature, calls, swapResult, result, fn, args, ret, confirmation,
          isMonitoring, monitorInterval, timers, ticks,
          now, tokenCache, priceCache, cleared, lookups,
          builder, lastUpdate, builderCall, rebalance,
          walletId, walletAddress, walletOps>>

\* The variables of the asynchronous operations (executeAllocation and the
\* swap pipelines).
execVars == <<op, pc, config, plan, sortedTrades, idx, steps, errors,
              totalValueTraded, quote, signature, calls, swapResult, result>>

\* The variables of the synchronous computations.
pureVars == <<fn, args, ret>>

\* The variables of the periodic monitor of AutonomousPortfolioManager.
monitorVars == <<isMonitoring, monitorInterval, timers, ticks>>

\* The variables of MarketDataClient's caches.
marketVars == <<now, tokenCache, priceCache, cleared, lookups>>

\* The variables of a long-lived builder agent, besides `config`.
builderVars == <<builder, lastUpdate, builderCall, rebalance>>

\* The variables of one AgentWallet.
walletVars == <<walletId, walletAddress, walletOps>>

\* The variables of executeAllocation and the swap pipelines besides `config`.
execLocals == <<op, pc, plan, sortedTrades, idx, steps, errors,
                totalValueTraded, quote, signature, calls, swapResult, result>>

\* What each group of actions leaves alone.
nonExecVars == <<pureVars, confirmation, monitorVars, marketVars, builderVars, walletVars>>
nonPureVars == <<execVars, confirmation, monitorVars, marketVars, builderVars, walletVars>>
nonConfirmationVars == <<execVars, pureVars, monitorVars, marketVars, builderVars, walletVars>>
nonMonitorVars == <<execVars, pureVars, confirmation, marketVars, builderVars, walletVars>>
nonMarketVars == <<execVars, pureVars, confirmation, monitorVars, builderVars, walletVars>>
nonBuilderVars ==
    <<execLocals, pureVars, confirmation, monitorVars, marketVars, walletVars>>
nonWalletVars ==
    <<execVars, pureVars, confirmation, monitorVars, marketVars, builderVars>>

----------------------------------------------------------------------------
(* Strategies and profile adjustment (agent/strategies, portfolio-builder) *)

Categories == {"stablecoins", "sol", "otherTokens", "stocks"}

conservativeStrategy ==
    [stablecoins |-> 50, sol |-> 15, otherTokens |-> 5, stocks |-> 30]

moderateStrategy ==
    [stablecoins |-> 25, sol |-> 30, otherTokens |-> 15, stocks |-> 30]

aggressiveStrategy ==
    [stablecoins |-> 10, sol |-> 40, otherTokens |-> 30, stocks |-> 20]

getStrategy(riskLevel) ==
    CASE riskLevel = "conservative" -> conservativeStrategy
      [] riskLevel = "moderate"     -> moderateStrategy
      [] riskLevel = "aggressive"   -> aggressiveStrategy
      [] OTHER                      -> moderateStrategy

RiskTolerances == {"conservative", "moderate", "aggressive"}
TimeHorizons == {"short", "medium", "long"}
InvestmentGoals == {"growth", "income", "preservation", "speculation"}

UserProfiles ==
    [riskTolerance : RiskTolerances,
     timeHorizon : TimeHorizons,
     investmentGoals : SUBSET InvestmentGoals]

\* Mutant of adjustStrategyForProfile: the short horizon moves 10 points into
\* stablecoins but takes only 5 out, and nothing is renormalised.
adjustStrategyUnbalanced(strategy, profile) ==
    LET h == profile.timeHorizon
        a1 == IF h = "short"
                THEN [strategy EXCEPT !.stablecoins = @ + 10, !.sol = @ - 5]
                ELSE IF h = "long"
                THEN [strategy EXCEPT !.stablecoins = @ - 5, !.sol = @ + 5]
                ELSE strategy
        a2 == IF "income" \in profile.investmentGoals
                THEN [a1 EXCEPT !.stablecoins = @ + 5, !.otherTokens = @ - 5]
                ELSE a1
    IN  IF "speculation" \in profile.investmentGoals
          THEN [a2 EXCEPT !.otherTokens = @ + 10, !.stablecoins = @ - 10]
          ELSE a2

\* Mutant of adjustStrategyForProfile: the time horizon is not looked at.
adjustStrategyHorizonIgnored(strategy, profile) ==
    LET a2 == IF "income" \in profile.investmentGoals
                THEN [strategy EXCEPT !.stablecoins = @ + 5, !.otherTokens = @ - 5]
                ELSE strategy
    IN  IF "speculation" \in profile.investmentGoals
          THEN [a2 EXCEPT !.otherTokens = @ + 10, !.stablecoins = @ - 10]
          ELSE a2

\* adjustStrategyForProfile: the four adjustments in source order, then the
\* renormalisation (factor = 100 / total, applied only when total # 100).
adjustStrategyForProfile(strategy, profile) ==
    LET h == profile.timeHorizon
        a1 == IF h = "short"
                THEN [strategy EXCEPT !.stablecoins = @ + 10, !.sol = @ - 5,
                                      !.otherTokens = @ - 5]
                ELSE IF h = "long"
                THEN [strategy EXCEPT !.stablecoins = @ - 5, !.sol = @ + 5]
                ELSE strategy
        a2 == IF "income" \in profile.investmentGoals
                THEN [a1 EXCEPT !.stablecoins = @ + 5, !.otherTokens = @ - 5]
                ELSE a1
        a3 == IF "speculation" \in profile.investmentGoals
                THEN [a2 EXCEPT !.otherTokens = @ + 10, !.stablecoins = @ - 10]
                ELSE a2
        total == a3.stablecoins + a3.sol + a3.otherTokens + a3.stocks
    IN  IF total # 100
          THEN [c \in Categories |-> (a3[c] * 100) \div total]
          ELSE a3

analyzeProfile(profile) ==
    adjustStrategyForProfile(getStrategy(profile.riskTolerance), profile)

\* The profiles executeAllocation is run with: every risk tolerance and time
\* horizon, with the goal that adjusts nothing.
ExecutionProfiles ==
    [riskTolerance : RiskTolerances,
     timeHorizon : TimeHorizons,
     investmentGoals : {{"growth"}}]

----------------------------------------------------------------------------
(* Trade plan generator (PortfolioBuilderAgent.createExecutionPlan)        *)

\* A snapshot: USD value held per category, in hundreds of USD per category.
Portfolios ==
    { [stablecoins |-> s * 100, sol |-> l * 100, otherTokens |-> o * 100,
       stocks |-> k * 100, totalValueUsd |-> (s + l + o + k) * 100] :
         s \in 0..MaxHolding, l \in 0..MaxHolding,
         o \in 0..MaxHolding, k \in 0..MaxHolding }

DEFAULT_CONFIG ==
    [minTradeSize |-> 10, rebalanceThresholdPct |-> 5, autoExecute |-> FALSE,
     includeStocks |-> FALSE, dryRun |-> TRUE]

\* Builder configurations: DEFAULT_CONFIG overridden by the constructor's
\* Partial<PortfolioBuilderConfig>.
Configs ==
    [minTradeSize : {DEFAULT_CONFIG.minTradeSize},
     rebalanceThresholdPct : {DEFAULT_CONFIG.rebalanceThresholdPct},
     autoExecute : {DEFAULT_CONFIG.autoExecute},
     includeStocks : BOOLEAN,
     dryRun : BOOLEAN]

Abs(x) == IF x < 0 THEN -x ELSE x

Trade(type, from, to, amount, priority) ==
    [type |-> type, fromAsset |-> from, toAsset |-> to, amountUsd |-> amount,
     priority |-> priority]

\* Mutant of SolTrades: the minimum trade size is not looked at.
SolTradesAnySize(deltas, cfg, priority) ==
    IF deltas.sol > 0
      THEN <<Trade("swap", "USDC", "SOL", deltas.sol, priority)>>
      ELSE IF deltas.sol < 0
      THEN <<Trade("swap", "SOL", "USDC", Abs(deltas.sol), priority)>>
      ELSE <<>>

\* The SOL block of createExecutionPlan.
SolTrades(deltas, cfg, priority) ==
    IF Abs(deltas.sol) >= cfg.minTradeSize
      THEN IF deltas.sol > 0
             THEN <<Trade("swap", "USDC", "SOL", deltas.sol, priority)>>
             ELSE <<Trade("swap", "SOL", "USDC", Abs(deltas.sol), priority)>>
      ELSE <<>>

\* Mutant of OtherTokenTrades: the priority counter is not used (priority 0).
OtherTokenTradesUnnumbered(deltas, cfg, priority) ==
    IF Abs(deltas.otherTokens) >= cfg.minTradeSize
      THEN IF deltas.otherTokens > 0
             THEN <<Trade("swap", "USDC", "WBTC", deltas.otherTokens, 0)>>
             ELSE <<Trade("swap", "WBTC", "USDC", Abs(deltas.otherTokens), 0)>>
      ELSE <<>>

\* The other-tokens block of createExecutionPlan.
OtherTokenTrades(deltas, cfg, priority) ==
    IF Abs(deltas.otherTokens) >= cfg.minTradeSize
      THEN IF deltas.otherTokens > 0
             THEN <<Trade("swap", "USDC", "WBTC", deltas.otherTokens, priority)>>
             ELSE <<Trade("swap", "WBTC", "USDC", Abs(deltas.otherTokens), priority)>>
      ELSE <<>>

\* The stocks block of createExecutionPlan; a stock trade has no fromAsset.
StockTrades(deltas, cfg, priority) ==
    IF cfg.includeStocks /\ Abs(deltas.stocks) >= cfg.minTradeSize
      THEN IF deltas.stocks > 0
             THEN <<Trade("stock_buy", "", "AAPL", deltas.stocks, priority)>>
             ELSE <<Trade("stock_sell", "", "AAPL", Abs(deltas.stocks), priority)>>
      ELSE <<>>

RECURSIVE SumAmountUsd(_)
SumAmountUsd(s) ==
    IF s = <<>> THEN 0 ELSE Head(s).amountUsd + SumAmountUsd(Tail(s))

createExecutionPlan(portfolio, userProfile, cfg) ==
    LET strategy == analyzeProfile(userProfile)
        totalValue == portfolio.totalValueUsd
        targets == [c \in Categories |-> (strategy[c] * totalValue) \div 100]
        deltas == [c \in Categories |-> targets[c] - portfolio[c]]
        t1 == SolTrades(deltas, cfg, 0)
        t2 == t1 \o OtherTokenTrades(deltas, cfg, Len(t1))
        trades == t2 \o StockTrades(deltas, cfg, Len(t2))
    IN  [trades |-> trades,
         totalTradeValueUsd |-> SumAmountUsd(trades),
         totalValueUsd |-> totalValue]

----------------------------------------------------------------------------
(* Results and steps                                                       *)

\* Amounts reported in a swap result: `raw` is the out-amount of a quote in
\* base units, `unit` tells whether the reported number is that amount
\* divided by 10^decimals of the output token ("tokens"), the amount as
\* quoted ("raw") or absent ("none"), and `nan` that the division was
\* applied to a missing out-amount (Number(undefined) / 10^d is NaN).
NoAmount == [raw |-> 0, unit |-> "none", nan |-> FALSE]

\* outputAmount: 0 (TradingClient) and outputAmount: '0' (AgentWallet).
ZeroAmount == [raw |-> 0, unit |-> "zero", nan |-> FALSE]

\* The outAmount of the quote the venue gives for the i-th trade.
OutAmount(i) == 1000 * (i + 1)

\* The output amount of a successful swap of `operation` whose accepted
\* quote is `q`: TradingClient.executeSwap divides Number(quote.outAmount)
\* by 10^decimals, AgentWallet.swap returns quote.outAmount as it is, and
\* ClaudePortfolioAgent.executeSwap returns no amount.
ReportedAmount(operation, q, i) ==
    IF operation = "executeAllocation"
      THEN IF q.hasOutAmount
             THEN [raw |-> OutAmount(i), unit |-> "tokens", nan |-> FALSE]
             ELSE [raw |-> 0, unit |-> "tokens", nan |-> TRUE]
    ELSE IF operation = "swap"
      THEN [raw |-> OutAmount(i), unit |-> "raw", nan |-> FALSE]
    ELSE NoAmount

\* The output amount of a failed swap of `operation`: 0 in TradingClient and
\* executeSwapTrade, '0' in AgentWallet, no amount in ClaudePortfolioAgent.
FailedAmount(operation) ==
    IF operation = "executeSwap" THEN NoAmount ELSE ZeroAmount

NoSwapResult ==
    [status |-> "none", signature |-> "", error |-> "", outputAmount |-> NoAmount]

\* Mutant of SwapFailed: the failure is returned without its message.
SwapFailedSilently(sig, message) ==
    [status |-> "failed", signature |-> sig, error |-> "",
     outputAmount |-> FailedAmount(op)]

\* A failed SwapResult: the early return of executeSwapTrade, the
\* confirmation-error return and the catch block of executeSwap.
SwapFailed(sig, message) ==
    [status |-> "failed", signature |-> sig, error |-> message,
     outputAmount |-> FailedAmount(op)]

\* The success return of a swap operation.
SwapSuccess(sig) ==
    [status |-> "success", signature |-> sig, error |-> "",
     outputAmount |-> ReportedAmount(op, quote, idx)]

\* Signature returned by sendRawTransaction for the i-th trade.
TxSignature(i) == "tx" \o ToString(i)

NoExecutionResult ==
    [status |-> "none", steps |-> <<>>, totalTradesAttempted |-> 0,
     totalTradesCompleted |-> 0, totalValueTraded |-> 0, errors |-> <<>>]

\* The ExecutionStep pushed at the top of the for loop (status 'executing');
\* the dry-run branch builds the same object with status 'pending'.
\* (`percentage`, a derived float that nothing reads, is left out.)
NewStep(trade, status) ==
    [type |-> trade.type, asset |-> trade.toAsset, amountUsd |-> trade.amountUsd,
     status |-> status, error |-> "", result |-> NoSwapResult]

\* steps.filter(s => s.status === 'completed').length
RECURSIVE CountCompleted(_)
CountCompleted(s) ==
    IF s = <<>> THEN 0
    ELSE (IF Head(s).status = "completed" THEN 1 ELSE 0) + CountCompleted(Tail(s))

\* Mutant of ExecutionStatus: one completed step makes the run a success.
ExecutionStatusAnyCompleted(completedSteps, nSteps) ==
    IF completedSteps > 0 THEN "success" ELSE "failed"

\* The status expression of the final return of executeAllocation.
ExecutionStatus(completedSteps, nSteps) ==
    IF completedSteps = nSteps THEN "success"
    ELSE IF completedSteps > 0 THEN "partial" ELSE "failed"

\* The return of executeAllocation for an empty plan.
EmptyPlanResult ==
    [status |-> "success", steps |-> <<>>, totalTradesAttempted |-> 0,
     totalTradesCompleted |-> 0, totalValueTraded |-> 0, errors |-> <<>>]

\* The return of executeAllocation in dry-run mode.
DryRunResult(p) ==
    [status |-> "success",
     steps |-> [i \in 1..Len(p.trades) |-> NewStep(p.trades[i], "pending")],
     totalTradesAttempted |-> Len(p.trades),
     totalTradesCompleted |-> 0,
     totalValueTraded |-> p.totalTradeValueUsd,
     errors |-> <<"Dry run mode - no trades executed">>]

\* The final return of executeAllocation.
FinalResult(st, traded, errs) ==
    [status |-> ExecutionStatus(CountCompleted(st), Len(st)),
     steps |-> st,
     totalTradesAttempted |-> Len(st),
     totalTradesCompleted |-> CountCompleted(st),
     totalValueTraded |-> traded,
     errors |-> errs]

\* [...plan.trades].sort((a, b) => a.priority - b.priority): a stable
\* insertion sort by ascending priority.
RECURSIVE InsertByPriority(_, _)
InsertByPriority(t, s) ==
    IF s = <<>> THEN <<t>>
    ELSE IF t.priority < Head(s).priority THEN <<t>> \o s
    ELSE <<Head(s)>> \o InsertByPriority(t, Tail(s))

\* Mutant of SortByPriority: the comparator is inverted (b.priority -
\* a.priority), so the trades come out in descending priority.
RECURSIVE SortByPriorityDescending(_)
SortByPriorityDescending(trades) ==
    IF trades = <<>> THEN <<>>
    ELSE LET rest == SortByPriorityDescending(Tail(trades))
             before == SelectSeq(rest, LAMBDA t : t.priority >= Head(trades).priority)
             after == SelectSeq(rest, LAMBDA t : t.priority < Head(trades).priority)
         IN  before \o <<Head(trades)>> \o after

RECURSIVE SortByPriority(_)
SortByPriority(trades) ==
    IF trades = <<>> THEN <<>>
    ELSE InsertByPriority(trades[Len(trades)],
                          SortByPriority(SubSeq(trades, 1, Len(trades) - 1)))

\* Mutant of StepAfterSwap: only a successful swap changes the step's status.
StepAfterSwapSuccessOnly(step, res) ==
    [step EXCEPT !.result = res,
                 !.status = IF res.status = "success" THEN "completed" ELSE @,
                 !.error = IF res.status # "success" /\ res.error # ""
                             THEN res.error ELSE @]

\* The step of the current trade after its swap returned `res`
\* (step.result, step.status, step.error).
StepAfterSwap(step, res) ==
    [step EXCEPT !.result = res,
                 !.status = IF res.status = "success" THEN "completed" ELSE "failed",
                 !.error = IF res.status # "success" /\ res.error # ""
                             THEN res.error ELSE @]

\* Mutant of ErrorsAfterSwap: the message of a failed swap is not collected.
ErrorsAfterSwapDropped(errs, trade, res) ==
    errs

\* errors after the swap of `trade` returned `res`.
ErrorsAfterSwap(errs, trade, res) ==
    IF res.status # "success" /\ res.error # ""
      THEN Append(errs, trade.type \o " failed: " \o res.error)
      ELSE errs

\* totalValueTraded after the swap of `trade` returned `res`.
ValueAfterSwap(traded, trade, res) ==
    IF res.status = "success" THEN traded + trade.amountUsd ELSE traded

----------------------------------------------------------------------------
(* External answers                                                        *)

\* What the venue's quote endpoint can answer: the transport outcome (no
\* answer at all, a non-2xx status, a 2xx status) and, when there is a body,
\* whether it carries an `error` field and whether it carries `outAmount`
\* (a quote, an error report, or a body with neither).
QuoteBodies ==
    { [hasError |-> FALSE, hasOutAmount |-> TRUE],
      [hasError |-> TRUE, hasOutAmount |-> FALSE],
      [hasError |-> FALSE, hasOutAmount |-> FALSE] }

QuoteResponses ==
    {[http |-> "unreachable", hasError |-> FALSE, hasOutAmount |-> FALSE]} \cup
    { [http |-> h, hasError |-> b.hasError, hasOutAmount |-> b.hasOutAmount] :
        h \in {"error", "ok"}, b \in QuoteBodies }

NoQuote == [http |-> "none", hasError |-> FALSE, hasOutAmount |-> FALSE]

\* The venue reports no route: an error field, or no output amount.
NoRoute(resp) == resp.hasError \/ ~resp.hasOutAmount

\* TradingClient.getSwapQuote: "" when the quote is returned, else the
\* message of the Error it throws.
getSwapQuote(resp) ==
    IF resp.http = "unreachable" THEN "fetch failed"
    ELSE IF resp.http # "ok" THEN "Jupiter quote error"
    ELSE ""

\* AgentWallet.getQuote: "" when the quote is returned, else the message of
\* the Error it throws (response.ok is not looked at; a body that cannot be
\* read makes fetch / json() throw).
getQuote(resp) ==
    IF resp.http = "unreachable" THEN "fetch failed"
    ELSE IF resp.hasError THEN "quote error"
    ELSE IF ~resp.hasOutAmount THEN "No route found for this swap"
    ELSE ""

\* One entry of the call log.
Call(trade, stage, ok, noRoute) ==
    [trade |-> trade, stage |-> stage, ok |-> ok, noRoute |-> noRoute]

----------------------------------------------------------------------------
(* Initial state                                                           *)

NoPlan == [trades |-> <<>>, totalTradeValueUsd |-> 0, totalValueUsd |-> 0]

\* The keys of PortfolioBuilderConfig that the model carries.
ConfigKeys == {"minTradeSize", "rebalanceThresholdPct", "autoExecute",
               "includeStocks", "dryRun"}

\* No updateConfig call yet.
NoUpdate == [keys |-> {}, values |-> DEFAULT_CONFIG, before |-> DEFAULT_CONFIG]

\* No method call in progress.
NoBuilderCall == [name |-> "none", pc |-> "idle", signer |-> FALSE, trades |-> <<>>]

\* No rebalanceIfNeeded call so far: `needed` is what needsRebalancing
\* returned, `signer` and `autoExecute` what the call read, `invoked` that it
\* called executeAllocation, `attempted` the trades attempted during the call,
\* `rebalanceNeeded` and `executionResult` (present or not) what it returned.
NoRebalance ==
    [outcome |-> "none", needed |-> FALSE, signer |-> FALSE, autoExecute |-> FALSE,
     invoked |-> FALSE, attempted |-> 0, rebalanceNeeded |-> FALSE,
     executionResult |-> FALSE]

\* The mints the client is asked about.
Mints == {"SOL"}

\* tokenCache.get(mint) and priceCache.get(mint) of a mint without an entry.
NoToken == [mint |-> "", symbol |-> ""]
NoPriceEntry == [price |-> 0, timestamp |-> 0, cached |-> FALSE]

\* status.value of a getSignatureStatus answer: null, or a confirmation status
\* with the transaction's error, if any.
NullStatus == [confirmationStatus |-> "null", err |-> FALSE]

NoConfirmation ==
    [pc |-> "idle", timeout |-> 0, elapsed |-> 0, status |-> NullStatus,
     returned |-> "none"]

Init ==
    /\ op = "none"
    /\ pc = "idle"
    /\ config = DEFAULT_CONFIG
    /\ plan = NoPlan
    /\ sortedTrades = <<>>
    /\ idx = 0
    /\ steps = <<>>
    /\ errors = <<>>
    /\ totalValueTraded = 0
    /\ quote = NoQuote
    /\ signature = ""
    /\ calls = <<>>
    /\ swapResult = NoSwapResult
    /\ result = NoExecutionResult
    /\ fn = "none"
    /\ args = <<>>
    /\ ret = <<>>
    /\ confirmation = NoConfirmation
    /\ isMonitoring = FALSE
    /\ monitorInterval = 0
    /\ timers = {}
    /\ ticks = <<>>
    /\ now = 0
    /\ tokenCache = [mint \in Mints |-> NoToken]
    /\ priceCache = [mint \in Mints |-> NoPriceEntry]
    /\ cleared = FALSE
    /\ lookups = <<>>
    /\ builder = [constructed |-> FALSE, dryRunCleared |-> FALSE,
                  swapsStarted |-> 0, calls |-> 0]
    /\ lastUpdate = NoUpdate
    /\ builderCall = NoBuilderCall
    /\ rebalance = NoRebalance
    /\ walletId = ""
    /\ walletAddress = ""
    /\ walletOps = <<>>

----------------------------------------------------------------------------
(* PortfolioBuilderAgent.executeAllocation                                 *)

\* Mutant of IsDryRun: the dry-run check is missing.
NeverDryRun(cfg) == FALSE

\* if (this.config.dryRun)
IsDryRun(cfg) == cfg.dryRun

\* executeAllocation up to its first suspension inside the loop: the agent
\* is constructed with configuration cfg, createExecutionPlan reads the
\* snapshot (the read can fail, and then executeAllocation rejects) and the
\* empty-plan and dry-run branches return at once.
ExecuteAllocationStart ==
    /\ op = "none"
    /\ \E cfg \in Configs, portfolio \in Portfolios, profile \in ExecutionProfiles,
          fetched \in BOOLEAN :
         LET p == createExecutionPlan(portfolio, profile, cfg) IN
         /\ op' = "executeAllocation"
         /\ config' = cfg
         /\ IF ~fetched
              THEN /\ pc' = "threw"
                   /\ UNCHANGED <<plan, sortedTrades, idx, result>>
              ELSE /\ plan' = p
                   /\ IF Len(p.trades) = 0
                        THEN /\ result' = EmptyPlanResult
                             /\ pc' = "done"
                             /\ UNCHANGED <<sortedTrades, idx>>
                        ELSE IF IsDryRun(cfg)
                        THEN /\ result' = DryRunResult(p)
                             /\ pc' = "done"
                             /\ UNCHANGED <<sortedTrades, idx>>
                        ELSE /\ sortedTrades' = SortByPriority(p.trades)
                             /\ idx' = 1
                             /\ pc' = "loop"
                             /\ UNCHANGED result
    /\ UNCHANGED <<steps, errors, totalValueTraded, quote, signature, calls,
                   swapResult>>
    /\ UNCHANGED nonExecVars

\* The head of one loop iteration: push the step as 'executing', then
\* either enter executeSwapTrade (a swap with a fromAsset), or fail a stock
\* trade on the spot, or (a swap without fromAsset) do nothing.
TradeLoop ==
    /\ op = "executeAllocation" /\ pc = "loop"
    /\ idx <= Len(sortedTrades)
    /\ LET trade == sortedTrades[idx]
           step == NewStep(trade, "executing")
       IN  IF trade.type = "swap" /\ trade.fromAsset # ""
             THEN /\ steps' = Append(steps, step)
                  /\ pc' = "price"
                  /\ UNCHANGED <<idx, errors>>
             ELSE IF trade.type \in {"stock_buy", "stock_sell"}
             THEN /\ steps' = Append(steps,
                        [step EXCEPT !.status = "failed",
                                     !.error = "Stock trading not yet implemented"])
                  /\ errors' = Append(errors, "Stock trading not yet implemented")
                  /\ idx' = idx + 1
                  /\ UNCHANGED pc
             ELSE /\ steps' = Append(steps, step)
                  /\ idx' = idx + 1
                  /\ UNCHANGED <<pc, errors>>
    /\ UNCHANGED <<op, config, plan, sortedTrades, totalValueTraded, quote,
                   signature, calls, swapResult, result>>
    /\ UNCHANGED nonExecVars

\* Mutant of RecordSwapResult: a failed swap leaves the loop (a `break`).
RecordSwapResultBreak(res) ==
    /\ steps' = [steps EXCEPT ![idx] = StepAfterSwap(@, res)]
    /\ totalValueTraded' = ValueAfterSwap(totalValueTraded, sortedTrades[idx], res)
    /\ errors' = ErrorsAfterSwap(errors, sortedTrades[idx], res)
    /\ idx' = IF res.status = "success" THEN idx + 1 ELSE Len(sortedTrades) + 1
    /\ pc' = "loop"
    /\ quote' = NoQuote
    /\ signature' = ""

\* The swap of the current trade returned `res`: the rest of the loop body.
RecordSwapResult(res) ==
    /\ steps' = [steps EXCEPT ![idx] = StepAfterSwap(@, res)]
    /\ totalValueTraded' = ValueAfterSwap(totalValueTraded, sortedTrades[idx], res)
    /\ errors' = ErrorsAfterSwap(errors, sortedTrades[idx], res)
    /\ idx' = idx + 1
    /\ pc' = "loop"
    /\ quote' = NoQuote
    /\ signature' = ""

\* After the loop: the snapshot is read again (the read can fail, and then
\* executeAllocation rejects) and the ExecutionResult is returned.
FinalPortfolio ==
    /\ op = "executeAllocation" /\ pc = "loop"
    /\ idx > Len(sortedTrades)
    /\ \E fetched \in BOOLEAN :
         IF fetched
           THEN /\ result' = FinalResult(steps, totalValueTraded, errors)
                /\ pc' = "done"
           ELSE /\ pc' = "threw"
                /\ UNCHANGED result
    /\ UNCHANGED <<op, config, plan, sortedTrades, idx, steps, errors,
                   totalValueTraded, quote, signature, calls, swapResult>>
    /\ UNCHANGED nonExecVars

----------------------------------------------------------------------------
(* executeSwapTrade and TradingClient.executeSwap                          *)

\* executeSwapTrade: the price of the input token; without one it returns a
\* failed SwapResult and executeSwap is not called.
TokenPrice ==
    /\ op = "executeAllocation" /\ pc = "price"
    /\ \E priced \in BOOLEAN :
         IF priced
           THEN /\ pc' = "tokens"
                /\ UNCHANGED <<steps, errors, totalValueTraded, idx, quote, signature>>
           ELSE RecordSwapResult(SwapFailed("", "Could not get input token price"))
    /\ UNCHANGED <<op, config, plan, sortedTrades, calls, swapResult, result>>
    /\ UNCHANGED nonExecVars

\* executeSwap: the token info of both mints, or 'Could not resolve token
\* info' thrown into the catch block.
ResolveTokens ==
    /\ op = "executeAllocation" /\ pc = "tokens"
    /\ \E resolved \in BOOLEAN :
         IF resolved
           THEN /\ pc' = "quote"
                /\ UNCHANGED <<steps, errors, totalValueTraded, idx, quote, signature>>
           ELSE RecordSwapResult(SwapFailed("", "Could not resolve token info"))
    /\ UNCHANGED <<op, config, plan, sortedTrades, calls, swapResult, result>>
    /\ UNCHANGED nonExecVars

\* executeSwap: await this.getSwapQuote(params).
TradingQuote ==
    /\ op = "executeAllocation" /\ pc = "quote"
    /\ \E resp \in QuoteResponses :
         LET thrown == getSwapQuote(resp) IN
         /\ calls' = Append(calls, Call(idx, "quote", thrown = "", NoRoute(resp)))
         /\ IF thrown = ""
              THEN /\ quote' = resp
                   /\ pc' = "instructions"
                   /\ UNCHANGED <<steps, errors, totalValueTraded, idx, signature>>
              ELSE RecordSwapResult(SwapFailed("", thrown))
    /\ UNCHANGED <<op, config, plan, sortedTrades, swapResult, result>>
    /\ UNCHANGED nonExecVars

\* Mutant of TradingInstructions: a rejected request is issued again.
TradingInstructionsRetry ==
    /\ op = "executeAllocation" /\ pc = "instructions"
    /\ \E ok \in BOOLEAN :
         /\ calls' = Append(calls, Call(idx, "instructions", ok, FALSE))
         /\ pc' = IF ok THEN "build" ELSE "instructions"
    /\ UNCHANGED <<op, config, plan, sortedTrades, idx, steps, errors,
                   totalValueTraded, quote, signature, swapResult, result>>
    /\ UNCHANGED nonExecVars

\* executeSwap: await this.getSwapInstructions(quote.raw, userPublicKey).
TradingInstructions ==
    /\ op = "executeAllocation" /\ pc = "instructions"
    /\ \E ok \in BOOLEAN :
         /\ calls' = Append(calls, Call(idx, "instructions", ok, FALSE))
         /\ IF ok
              THEN /\ pc' = "build"
                   /\ UNCHANGED <<steps, errors, totalValueTraded, idx, quote, signature>>
              ELSE RecordSwapResult(SwapFailed("", "Jupiter swap instructions error"))
    /\ UNCHANGED <<op, config, plan, sortedTrades, swapResult, result>>
    /\ UNCHANGED nonExecVars

\* executeSwap: await this.buildSwapTransaction(...) (lookup tables and the
\* recent blockhash are read from the RPC node).
TradingBuild ==
    /\ op = "executeAllocation" /\ pc = "build"
    /\ \E ok \in BOOLEAN :
         /\ calls' = Append(calls, Call(idx, "build", ok, FALSE))
         /\ IF ok
              THEN /\ pc' = "sign"
                   /\ UNCHANGED <<steps, errors, totalValueTraded, idx, quote, signature>>
              ELSE RecordSwapResult(SwapFailed("", "failed to get recent blockhash"))
    /\ UNCHANGED <<op, config, plan, sortedTrades, swapResult, result>>
    /\ UNCHANGED nonExecVars

\* executeSwap: transaction.sign([signer]) (throws when the keypair is not
\* a required signer of the message).
TradingSign ==
    /\ op = "executeAllocation" /\ pc = "sign"
    /\ \E ok \in BOOLEAN :
         /\ calls' = Append(calls, Call(idx, "sign", ok, FALSE))
         /\ IF ok
              THEN /\ pc' = "send"
                   /\ UNCHANGED <<steps, errors, totalValueTraded, idx, quote, signature>>
              ELSE RecordSwapResult(SwapFailed("", "Cannot sign with non signer key"))
    /\ UNCHANGED <<op, config, plan, sortedTrades, swapResult, result>>
    /\ UNCHANGED nonExecVars

\* executeSwap: await this.connection.sendRawTransaction(...).
TradingSend ==
    /\ op = "executeAllocation" /\ pc = "send"
    /\ \E ok \in BOOLEAN :
         /\ calls' = Append(calls, Call(idx, "broadcast", ok, FALSE))
         /\ IF ok
              THEN /\ signature' = TxSignature(idx)
                   /\ pc' = "confirm"
                   /\ UNCHANGED <<steps, errors, totalValueTraded, idx, quote>>
              ELSE RecordSwapResult(SwapFailed("", "failed to send transaction"))
    /\ UNCHANGED <<op, config, plan, sortedTrades, swapResult, result>>
    /\ UNCHANGED nonExecVars

\* What confirmTransaction can answer: it throws (expired / not confirmed),
\* it reports the transaction with an execution error, or confirmed.
ConfirmAnswers == {"thrown", "err", "confirmed"}

\* executeSwap after confirmTransaction answered: the SwapResult returned.
SwapResultAfterConfirm(sig, answer) ==
    IF answer = "thrown" THEN SwapFailed("", "Transaction was not confirmed")
    ELSE IF answer = "err" THEN SwapFailed(sig, "Transaction failed: err")
    ELSE SwapSuccess(sig)

\* executeSwap: await this.connection.confirmTransaction(signature, 'confirmed').
TradingConfirm ==
    /\ op = "executeAllocation" /\ pc = "confirm"
    /\ \E answer \in ConfirmAnswers :
         /\ calls' = Append(calls, Call(idx, "confirm", answer = "confirmed", FALSE))
         /\ RecordSwapResult(SwapResultAfterConfirm(signature, answer))
    /\ UNCHANGED <<op, config, plan, sortedTrades, swapResult, result>>
    /\ UNCHANGED nonExecVars

----------------------------------------------------------------------------
(* AgentWallet.swap (as called by handleSwap)                              *)

\* A swap operation that is not part of executeAllocation returns `res`
\* (AgentWallet's `success: true/false` is status "success"/"failed").
ReturnSwap(res) ==
    /\ swapResult' = res
    /\ pc' = "done"

\* AgentWallet.swap up to its first await: without a loaded wallet it throws
\* before the try block.
SwapStart ==
    /\ op = "none"
    /\ \E loaded \in BOOLEAN :
         /\ op' = "swap"
         /\ pc' = IF loaded THEN "quote" ELSE "threw"
    /\ UNCHANGED <<config, plan, sortedTrades, idx, steps, errors, totalValueTraded,
                   quote, signature, calls, swapResult, result>>
    /\ UNCHANGED nonExecVars

\* swap: await this.getQuote(...).
WalletQuote ==
    /\ op = "swap" /\ pc = "quote"
    /\ \E resp \in QuoteResponses :
         LET thrown == getQuote(resp) IN
         /\ calls' = Append(calls, Call(idx, "quote", thrown = "", NoRoute(resp)))
         /\ IF thrown = ""
              THEN /\ quote' = resp
                   /\ pc' = "instructions"
                   /\ UNCHANGED swapResult
              ELSE /\ ReturnSwap(SwapFailed("", thrown))
                   /\ UNCHANGED quote
    /\ UNCHANGED <<op, config, plan, sortedTrades, idx, steps, errors,
                   totalValueTraded, signature, result>>
    /\ UNCHANGED nonExecVars

\* Mutant of WalletStage: the answer's error is not looked at and the swap
\* goes on to the next stage.
WalletStageUnchecked(at, stage, next, message) ==
    /\ op = "swap" /\ pc = at
    /\ \E ok \in BOOLEAN :
         /\ calls' = Append(calls, Call(idx, stage, ok, FALSE))
         /\ pc' = next
    /\ UNCHANGED <<op, config, plan, sortedTrades, idx, steps, errors,
                   totalValueTraded, quote, signature, swapResult, result>>
    /\ UNCHANGED nonExecVars

\* A stage of AgentWallet.swap whose failure (a thrown fetch or an `error`
\* field in the answer) is thrown into the catch block.
WalletStage(at, stage, next, message) ==
    /\ op = "swap" /\ pc = at
    /\ \E ok \in BOOLEAN :
         /\ calls' = Append(calls, Call(idx, stage, ok, FALSE))
         /\ IF ok
              THEN /\ pc' = next
                   /\ UNCHANGED swapResult
              ELSE ReturnSwap(SwapFailed("", message))
    /\ UNCHANGED <<op, config, plan, sortedTrades, idx, steps, errors,
                   totalValueTraded, quote, signature, result>>
    /\ UNCHANGED nonExecVars

\* swap: the POST to /swap-instructions.
WalletInstructions ==
    WalletStage("instructions", "instructions", "build", "swap instructions error")

\* swap: the instructions are assembled and getLatestBlockhash is awaited.
WalletBuild ==
    WalletStage("build", "build", "sign", "failed to get recent blockhash")

\* swap: the POST to the Privy signTransaction RPC.
WalletSign ==
    WalletStage("sign", "sign", "send", "signing error")

\* swap: await this.connection.sendRawTransaction(...), and the return that
\* follows it.
WalletSend ==
    /\ op = "swap" /\ pc = "send"
    /\ \E ok \in BOOLEAN :
         /\ calls' = Append(calls, Call(idx, "broadcast", ok, FALSE))
         /\ IF ok
              THEN /\ signature' = TxSignature(idx)
                   /\ ReturnSwap(SwapSuccess(TxSignature(idx)))
              ELSE /\ ReturnSwap(SwapFailed("", "failed to send transaction"))
                   /\ UNCHANGED signature
    /\ UNCHANGED <<op, config, plan, sortedTrades, idx, steps, errors,
                   totalValueTraded, quote, result>>
    /\ UNCHANGED nonExecVars

----------------------------------------------------------------------------
(* ClaudePortfolioAgent.executeSwap                                        *)

\* executeSwap up to its first await: an unknown token symbol returns a
\* failure at once.
ClaudeSwapStart ==
    /\ op = "none"
    /\ \E known \in BOOLEAN :
         /\ op' = "executeSwap"
         /\ IF known
              THEN /\ pc' = "quote"
                   /\ UNCHANGED swapResult
              ELSE ReturnSwap(SwapFailed("", "Unknown token"))
    /\ UNCHANGED <<config, plan, sortedTrades, idx, steps, errors, totalValueTraded,
                   quote, signature, calls, result>>
    /\ UNCHANGED nonExecVars

\* executeSwap: the quote fetch and the check `quote.error || !quote.outAmount`.
ClaudeQuote ==
    /\ op = "executeSwap" /\ pc = "quote"
    /\ \E resp \in QuoteResponses :
         LET failure == IF resp.http = "unreachable" THEN "fetch failed"
                        ELSE IF resp.hasError THEN "quote error"
                        ELSE IF ~resp.hasOutAmount THEN "No route found"
                        ELSE ""
         IN
         /\ calls' = Append(calls, Call(idx, "quote", failure = "", NoRoute(resp)))
         /\ IF failure = ""
              THEN /\ quote' = resp
                   /\ pc' = "instructions"
                   /\ UNCHANGED swapResult
              ELSE /\ ReturnSwap(SwapFailed("", failure))
                   /\ UNCHANGED quote
    /\ UNCHANGED <<op, config, plan, sortedTrades, idx, steps, errors,
                   totalValueTraded, signature, result>>
    /\ UNCHANGED nonExecVars

\* A stage of executeSwap whose failure returns { success: false, error }.
ClaudeStage(at, stage, next, message) ==
    /\ op = "executeSwap" /\ pc = at
    /\ \E ok \in BOOLEAN :
         /\ calls' = Append(calls, Call(idx, stage, ok, FALSE))
         /\ IF ok
              THEN /\ pc' = next
                   /\ UNCHANGED swapResult
              ELSE ReturnSwap(SwapFailed("", message))
    /\ UNCHANGED <<op, config, plan, sortedTrades, idx, steps, errors,
                   totalValueTraded, quote, signature, result>>
    /\ UNCHANGED nonExecVars

\* executeSwap: the POST to /swap-instructions.
ClaudeInstructions ==
    ClaudeStage("instructions", "instructions", "build", "swap instructions error")

\* executeSwap: the instructions are assembled and getLatestBlockhash is awaited.
ClaudeBuild ==
    ClaudeStage("build", "build", "sign", "failed to get recent blockhash")

\* executeSwap: the POST to the Privy signTransaction RPC.
ClaudeSign ==
    ClaudeStage("sign", "sign", "send", "signing error")

\* executeSwap: await this.connection.sendRawTransaction(...), and the
\* return that follows it.
ClaudeSend ==
    /\ op = "executeSwap" /\ pc = "send"
    /\ \E ok \in BOOLEAN :
         /\ calls' = Append(calls, Call(idx, "broadcast", ok, FALSE))
         /\ IF ok
              THEN /\ signature' = TxSignature(idx)
                   /\ ReturnSwap(SwapSuccess(TxSignature(idx)))
              ELSE /\ ReturnSwap(SwapFailed("", "failed to send transaction"))
                   /\ UNCHANGED signature
    /\ UNCHANGED <<op, config, plan, sortedTrades, idx, steps, errors,
                   totalValueTraded, quote, result>>
    /\ UNCHANGED nonExecVars

----------------------------------------------------------------------------
(* The synchronous computations: plan generation, drift and health score   *)
(*                                                                         *)
(* Each action below applies one function of the source to arguments drawn *)
(* from a bounded set and records the function, its arguments and the      *)
(* value it returned.                                                      *)

\* Snapshots read by getPortfolio: USD value held per category, in units of
\* 20 USD (every strategy percentage is a multiple of 5, so every target
\* amount of such a snapshot is a whole number of USD).
Snapshots ==
    { [stablecoins |-> s * 20, sol |-> l * 20, otherTokens |-> o * 20,
       stocks |-> k * 20, totalValueUsd |-> (s + l + o + k) * 20] :
         s \in 0..MaxUnits, l \in 0..MaxUnits,
         o \in 0..MaxUnits, k \in 0..MaxUnits }

\* Builder configurations the plan is generated under: minimum trade size
\* and rebalance threshold at their defaults or overridden.
PlanConfigs ==
    [minTradeSize : {DEFAULT_CONFIG.minTradeSize, 50},
     rebalanceThresholdPct : {DEFAULT_CONFIG.rebalanceThresholdPct, 10},
     autoExecute : {DEFAULT_CONFIG.autoExecute},
     includeStocks : BOOLEAN,
     dryRun : {DEFAULT_CONFIG.dryRun}]

\* createExecutionPlan applied to the snapshot that getPortfolio returned.
CreateExecutionPlan ==
    /\ fn = "none"
    /\ \E portfolio \in Snapshots, profile \in ExecutionProfiles, cfg \in PlanConfigs :
         /\ fn' = "createExecutionPlan"
         /\ args' = [portfolio |-> portfolio, userProfile |-> profile, config |-> cfg]
         /\ ret' = createExecutionPlan(portfolio, profile, cfg)
    /\ UNCHANGED nonPureVars

\* STRATEGIES of the autonomous manager: target percentage per token
\* symbol, in the order Object.entries enumerates the literal.
STRATEGIES ==
    [conservative |-> <<[symbol |-> "USDC", targetPct |-> 50],
                        [symbol |-> "USDY", targetPct |-> 30],
                        [symbol |-> "SOL", targetPct |-> 15],
                        [symbol |-> "EURC", targetPct |-> 5]>>,
     moderate |-> <<[symbol |-> "USDC", targetPct |-> 25],
                    [symbol |-> "USDY", targetPct |-> 25],
                    [symbol |-> "SOL", targetPct |-> 35],
                    [symbol |-> "EURC", targetPct |-> 15]>>,
     aggressive |-> <<[symbol |-> "SOL", targetPct |-> 60],
                      [symbol |-> "USDY", targetPct |-> 20],
                      [symbol |-> "USDC", targetPct |-> 15],
                      [symbol |-> "EURC", targetPct |-> 5]>>,
     custom |-> <<>>]

RiskProfiles == {"conservative", "moderate", "aggressive", "custom"}

\* The symbols TOKEN_INFO has an entry for.
TOKEN_INFO == {"SOL", "USDC", "USDY", "EURC", "USDT"}

\* PortfolioState as getPortfolioState builds it: USD value per held symbol
\* (each symbol in one holding) and their total.  The manager's USD amounts are in cents (its default
\* minimum trade is 0.50 USD); a holding is a number of units of 20 USD.
PortfolioStates ==
    { [valueUsd |-> [USDC |-> c * 2000, USDY |-> u * 2000, SOL |-> l * 2000,
                     EURC |-> e * 2000],
       totalValueUsd |-> (c + u + l + e) * 2000] :
         c \in 0..MaxUnits, u \in 0..MaxUnits,
         l \in 0..MaxUnits, e \in 0..MaxUnits }

\* ManagerConfig: rebalanceThresholdPct and minTradeUsd (cents) as the
\* constructor leaves them; 0 stands for a configured 0.
ManagerConfigs ==
    [rebalanceThresholdPct : {0, 5, 10}, minTradeUsd : {0, 50, 4000}]

\* const threshold = this.config.rebalanceThresholdPct || 5
ManagerThreshold(cfg) ==
    IF cfg.rebalanceThresholdPct = 0 THEN 5 ELSE cfg.rebalanceThresholdPct

\* const minTrade = this.config.minTradeUsd || 0.50
ManagerMinTrade(cfg) ==
    IF cfg.minTradeUsd = 0 THEN 50 ELSE cfg.minTradeUsd

\* (a - b) > threshold for the percentages a = value / total * 100 (0 when
\* the total is 0) and b = targetPct, compared without rounding.
PctAbove(value, total, targetPct, threshold) ==
    IF total > 0
      THEN value * 100 - targetPct * total > threshold * total
      ELSE 0 - targetPct > threshold

\* (b - a) > threshold, likewise.
PctBelow(value, total, targetPct, threshold) ==
    IF total > 0
      THEN targetPct * total - value * 100 > threshold * total
      ELSE targetPct - 0 > threshold

\* The first loop of calculateRebalanceActions: the overweight positions,
\* in target order.
RECURSIVE Overweight(_, _, _, _)
Overweight(state, target, threshold, minTrade) ==
    IF target = <<>> THEN <<>>
    ELSE LET symbol == Head(target).symbol
             targetPct == Head(target).targetPct
             currentValueUsd == IF symbol \in DOMAIN state.valueUsd
                                  THEN state.valueUsd[symbol] ELSE 0
             diff == currentValueUsd - (targetPct * state.totalValueUsd) \div 100
             rest == Overweight(state, Tail(target), threshold, minTrade)
         IN  IF /\ diff > minTrade
                /\ PctAbove(currentValueUsd, state.totalValueUsd, targetPct, threshold)
                /\ symbol \in TOKEN_INFO
               THEN <<[symbol |-> symbol, excessUsd |-> diff]>> \o rest
               ELSE rest

\* The first loop of calculateRebalanceActions: the underweight positions.
RECURSIVE Underweight(_, _, _, _)
Underweight(state, target, threshold, minTrade) ==
    IF target = <<>> THEN <<>>
    ELSE LET symbol == Head(target).symbol
             targetPct == Head(target).targetPct
             currentValueUsd == IF symbol \in DOMAIN state.valueUsd
                                  THEN state.valueUsd[symbol] ELSE 0
             diff == currentValueUsd - (targetPct * state.totalValueUsd) \div 100
             rest == Underweight(state, Tail(target), threshold, minTrade)
         IN  IF /\ ~(/\ diff > minTrade
                     /\ PctAbove(currentValueUsd, state.totalValueUsd, targetPct,
                                 threshold))
                /\ diff < 0 - minTrade
                /\ PctBelow(currentValueUsd, state.totalValueUsd, targetPct, threshold)
                /\ symbol \in TOKEN_INFO
               THEN <<[symbol |-> symbol, deficitUsd |-> 0 - diff]>> \o rest
               ELSE rest

\* Mutant of Min: the larger of the two.
MinTakesLarger(a, b) == IF a < b THEN b ELSE a

\* Math.min
Min(a, b) == IF a < b THEN a ELSE b

\* The nested matching loop of calculateRebalanceActions, from the pair
\* (over[i], under[j]) on; excessUsd and deficitUsd are decremented in place.
RECURSIVE MatchActions(_, _, _, _, _, _)
MatchActions(over, under, i, j, minTrade, actions) ==
    IF i > Len(over) THEN actions
    ELSE IF j > Len(under) THEN MatchActions(over, under, i + 1, 1, minTrade, actions)
    ELSE IF over[i].excessUsd < minTrade \/ under[j].deficitUsd < minTrade
      THEN MatchActions(over, under, i, j + 1, minTrade, actions)
    ELSE LET tradeUsd == Min(over[i].excessUsd, under[j].deficitUsd) IN
         MatchActions([over EXCEPT ![i].excessUsd = @ - tradeUsd],
                      [under EXCEPT ![j].deficitUsd = @ - tradeUsd],
                      i, j + 1, minTrade,
                      Append(actions,
                             [type |-> "sell", fromSymbol |-> over[i].symbol,
                              toSymbol |-> under[j].symbol, tradeUsd |-> tradeUsd]))

\* AutonomousPortfolioManager.calculateRebalanceActions on the state that
\* getPortfolioState returned.  An action keeps the tradeUsd its `amount`
\* and `reason` are derived from.
calculateRebalanceActions(state, target, cfg) ==
    LET threshold == ManagerThreshold(cfg)
        minTrade == ManagerMinTrade(cfg)
    IN  MatchActions(Overweight(state, target, threshold, minTrade),
                     Underweight(state, target, threshold, minTrade),
                     1, 1, minTrade, <<>>)

\* calculateRebalanceActions applied to the state getPortfolioState returned,
\* after handleCreatePortfolio / handleSetStrategy chose the strategy.
CalculateRebalanceActions ==
    /\ fn = "none"
    /\ \E state \in PortfolioStates, profile \in RiskProfiles, cfg \in ManagerConfigs :
         /\ fn' = "calculateRebalanceActions"
         /\ args' = [state |-> state, targetAllocation |-> STRATEGIES[profile],
                     config |-> cfg]
         /\ ret' = calculateRebalanceActions(state, STRATEGIES[profile], cfg)
    /\ UNCHANGED nonPureVars

\* The holdings getPortfolioState lists: SOL when its balance is positive and
\* the token accounts with a positive amount.
Holdings(state) == {symbol \in DOMAIN state.valueUsd : state.valueUsd[symbol] > 0}

\* this.targetAllocation[symbol] || 0
TargetOf(target, symbol) ==
    IF \E k \in DOMAIN target : target[k].symbol = symbol
      THEN (CHOOSE e \in {target[k] : k \in DOMAIN target} : e.symbol = symbol).targetPct
      ELSE 0

\* AutonomousPortfolioManager.checkRebalanceNeeded on the state that
\* getPortfolioState returned: the loop runs over the holdings.
checkRebalanceNeeded(state, target, cfg) ==
    LET threshold == ManagerThreshold(cfg) IN
    \E symbol \in Holdings(state) :
        \/ PctAbove(state.valueUsd[symbol], state.totalValueUsd,
                    TargetOf(target, symbol), threshold)
        \/ PctBelow(state.valueUsd[symbol], state.totalValueUsd,
                    TargetOf(target, symbol), threshold)

\* checkRebalanceNeeded applied to the state getPortfolioState returned.
CheckRebalanceNeeded ==
    /\ fn = "none"
    /\ \E state \in PortfolioStates, profile \in RiskProfiles, cfg \in ManagerConfigs :
         /\ fn' = "checkRebalanceNeeded"
         /\ args' = [state |-> state, targetAllocation |-> STRATEGIES[profile],
                     config |-> cfg]
         /\ ret' = checkRebalanceNeeded(state, STRATEGIES[profile], cfg)
    /\ UNCHANGED nonPureVars

\* analyzeProfile applied to a user profile.
AnalyzeProfile ==
    /\ fn = "none"
    /\ \E profile \in UserProfiles :
         /\ fn' = "analyzeProfile"
         /\ args' = [profile |-> profile]
         /\ ret' = analyzeProfile(profile)
    /\ UNCHANGED nonPureVars

\* PortfolioClient.calculateAllocation: percentage of the total per category
\* (all 0 for an empty portfolio).
calculateAllocation(p) ==
    IF p.totalValueUsd = 0
      THEN [stablecoins |-> 0, sol |-> 0, otherTokens |-> 0, stocks |-> 0]
      ELSE [c \in Categories |-> (p[c] * 100) \div p.totalValueUsd]

\* The Portfolio objects getPortfolio returns (the snapshot with its
\* `allocation`), for the snapshots whose percentages are whole numbers, so
\* that the division above is exact.
ComparedPortfolios ==
    { [stablecoins |-> p.stablecoins, sol |-> p.sol, otherTokens |-> p.otherTokens,
       stocks |-> p.stocks, totalValueUsd |-> p.totalValueUsd,
       allocation |-> calculateAllocation(p)] :
         p \in { q \in Snapshots :
                    \/ q.totalValueUsd = 0
                    \/ \A c \in Categories : (q[c] * 100) % q.totalValueUsd = 0 } }

\* The target allocations the builder compares a portfolio with:
\* strategy.allocations of analyzeProfile.
TargetAllocations == { analyzeProfile(profile) : profile \in UserProfiles }

\* One entry of the array compareToTarget returns.
Comparison(assetType, portfolio, targetAllocations) ==
    [assetType |-> assetType,
     targetPct |-> targetAllocations[assetType],
     actualPct |-> portfolio.allocation[assetType],
     deviationPct |-> portfolio.allocation[assetType] - targetAllocations[assetType]]

\* Mutant of compareToTarget: the deviation is taken target minus actual.
compareToTargetReversed(portfolio, targetAllocations) ==
    [i \in 1..4 |->
        LET c == Comparison(<<"stablecoins", "sol", "otherTokens", "stocks">>[i],
                            portfolio, targetAllocations)
        IN  [c EXCEPT !.deviationPct = c.targetPct - c.actualPct]]

\* PortfolioClient.compareToTarget
compareToTarget(portfolio, targetAllocations) ==
    <<Comparison("stablecoins", portfolio, targetAllocations),
      Comparison("sol", portfolio, targetAllocations),
      Comparison("otherTokens", portfolio, targetAllocations),
      Comparison("stocks", portfolio, targetAllocations)>>

\* The thresholdPct argument of needsRebalancing: left out, or a number.
ThresholdArgs ==
    {[given |-> FALSE, value |-> 0], [given |-> TRUE, value |-> 0],
     [given |-> TRUE, value |-> 5], [given |-> TRUE, value |-> 10]}

\* thresholdPct: number = 5
ThresholdPct(thresholdArg) ==
    IF thresholdArg.given THEN thresholdArg.value ELSE 5

\* Mutant of needsRebalancing: a deviation equal to the threshold triggers.
needsRebalancingInclusive(portfolio, targetAllocations, thresholdArg) ==
    LET comparison == compareToTarget(portfolio, targetAllocations) IN
    \E i \in DOMAIN comparison :
        Abs(comparison[i].deviationPct) >= ThresholdPct(thresholdArg)

\* PortfolioClient.needsRebalancing
needsRebalancing(portfolio, targetAllocations, thresholdArg) ==
    LET comparison == compareToTarget(portfolio, targetAllocations) IN
    \E i \in DOMAIN comparison :
        Abs(comparison[i].deviationPct) > ThresholdPct(thresholdArg)

\* compareToTarget applied to a portfolio and a target.
CompareToTarget ==
    /\ fn = "none"
    /\ \E portfolio \in ComparedPortfolios, target \in TargetAllocations :
         /\ fn' = "compareToTarget"
         /\ args' = [portfolio |-> portfolio, targetAllocations |-> target]
         /\ ret' = compareToTarget(portfolio, target)
    /\ UNCHANGED nonPureVars

\* needsRebalancing applied to a portfolio, a target and a threshold.
NeedsRebalancing ==
    /\ fn = "none"
    /\ \E portfolio \in ComparedPortfolios, target \in TargetAllocations,
          thresholdArg \in ThresholdArgs :
         /\ fn' = "needsRebalancing"
         /\ args' = [portfolio |-> portfolio, targetAllocations |-> target,
                     thresholdPct |-> thresholdArg]
         /\ ret' = needsRebalancing(portfolio, target, thresholdArg)
    /\ UNCHANGED nonPureVars

\* calculateHealthScore: comparison.reduce((sum, c) => sum + Math.abs(c.deviationPct), 0)
RECURSIVE TotalDeviation(_)
TotalDeviation(comparison) ==
    IF comparison = <<>> THEN 0
    ELSE Abs(Head(comparison).deviationPct) + TotalDeviation(Tail(comparison))

\* Mutant of calculateHealthScore: the distance of the total deviation from
\* 100 is returned.
calculateHealthScoreDistance(comparison) ==
    Abs(100 - TotalDeviation(comparison))

\* calculateHealthScore: Math.round(Math.max(0, 100 - totalDeviation / 2)),
\* computed in halves (Math.round rounds a half up).
calculateHealthScore(comparison) ==
    LET halves == IF 200 - TotalDeviation(comparison) > 0
                    THEN 200 - TotalDeviation(comparison) ELSE 0
    IN  (halves + 1) \div 2

\* The comparisons calculateHealthScore is applied to.
Comparisons ==
    { compareToTarget(portfolio, target) :
        portfolio \in ComparedPortfolios, target \in TargetAllocations }

\* calculateHealthScore applied to a comparison.
CalculateHealthScore ==
    /\ fn = "none"
    /\ \E comparison \in Comparisons :
         /\ fn' = "calculateHealthScore"
         /\ args' = [comparison |-> comparison]
         /\ ret' = calculateHealthScore(comparison)
    /\ UNCHANGED nonPureVars

\* analyzePortfolio on the portfolio getPortfolio returned: the recommended
\* strategy, the comparison and the health score of its result.
AnalyzePortfolio ==
    /\ fn = "none"
    /\ \E portfolio \in ComparedPortfolios, profile \in UserProfiles :
         LET strategy == analyzeProfile(profile)
             comparison == compareToTarget(portfolio, strategy)
         IN  /\ fn' = "analyzePortfolio"
             /\ args' = [portfolio |-> portfolio, userProfile |-> profile]
             /\ ret' = [recommendedStrategy |-> strategy,
                        comparison |-> comparison,
                        healthScore |-> calculateHealthScore(comparison)]
    /\ UNCHANGED nonPureVars

----------------------------------------------------------------------------
(* TradingClient.waitForConfirmation                                       *)
(*                                                                         *)
(* Time is counted in poll intervals of 1000 ms: `elapsed` is              *)
(* Date.now() - start.  Each await of getSignatureStatus takes between 0   *)
(* and MaxLatency intervals and answers with a status or rejects; the      *)
(* sleep between two polls takes one interval.                             *)

\* The default of the timeout parameter, 60000 ms.
DefaultConfirmTimeout == 60

\* setTimeout(resolve, 1000)
PollInterval == 1

WaitTimeoutArgs ==
    {[given |-> FALSE, value |-> 0]}
        \cup {[given |-> TRUE, value |-> t] : t \in 0..MaxTimeout}

WaitTimeout(arg) == IF arg.given THEN arg.value ELSE DefaultConfirmTimeout

SignatureStatuses ==
    {NullStatus}
        \cup {[confirmationStatus |-> c, err |-> e] :
                 c \in {"processed", "confirmed", "finalized"}, e \in BOOLEAN}

IsFinal(status) == status.confirmationStatus \in {"confirmed", "finalized"}

\* const start = Date.now()
WaitForConfirmation ==
    /\ confirmation.pc = "idle"
    /\ \E arg \in WaitTimeoutArgs :
          confirmation' = [NoConfirmation EXCEPT !.pc = "loop",
                                                 !.timeout = WaitTimeout(arg)]
    /\ UNCHANGED nonConfirmationVars

\* The sleep of a broken build that does not let time pass.
WaitSleepFrozen ==
    /\ confirmation.pc = "sleep"
    /\ confirmation' = [confirmation EXCEPT !.pc = "loop"]
    /\ UNCHANGED nonConfirmationVars

\* await new Promise(resolve => setTimeout(resolve, 1000))
WaitSleep ==
    /\ confirmation.pc = "sleep"
    /\ confirmation' = [confirmation EXCEPT !.pc = "loop",
                                            !.elapsed = @ + PollInterval]
    /\ UNCHANGED nonConfirmationVars

\* The loop test, then one await of getSignatureStatus and the test of its
\* answer.
WaitPoll ==
    /\ confirmation.pc = "loop"
    /\ IF confirmation.elapsed < confirmation.timeout
       THEN \E latency \in 0..MaxLatency :
               \/ \E status \in SignatureStatuses :
                     confirmation' =
                        IF IsFinal(status)
                        THEN [confirmation EXCEPT !.pc = "done",
                                                  !.elapsed = @ + latency,
                                                  !.status = status,
                                                  !.returned = ~status.err]
                        ELSE [confirmation EXCEPT !.pc = "sleep",
                                                  !.elapsed = @ + latency,
                                                  !.status = status]
               \/ confirmation' = [confirmation EXCEPT !.pc = "threw",
                                                       !.elapsed = @ + latency]
       ELSE confirmation' = [confirmation EXCEPT !.pc = "done",
                                                 !.returned = FALSE]
    /\ UNCHANGED nonConfirmationVars

----------------------------------------------------------------------------
(* AutonomousPortfolioManager: startMonitoring, stopMonitoring, the        *)
(* interval callback and handleRebalance                                   *)
(*                                                                         *)
(* A timer fires whenever its interval has passed, whether or not the      *)
(* callback of an earlier firing has returned; the interval and the        *)
(* latencies of the awaited requests are arbitrary, so a set timer can     *)
(* fire between any two steps.                                             *)

\* A rebalance action as handleRebalance sees it: whether both of its symbols
\* are in TOKEN_INFO.
RebalanceActionLists ==
    UNION {[1..n -> BOOLEAN] : n \in 0..MaxActions}

\* The position of the for loop of handleRebalance: the first action from
\* index i on that is not skipped by `continue`.
RECURSIVE NextKnown(_, _)
NextKnown(actions, i) ==
    IF i > Len(actions) THEN i
    ELSE IF actions[i] THEN i ELSE NextKnown(actions, i + 1)

NewTick(timer) ==
    [timer |-> timer, pc |-> "check", actions |-> <<>>, i |-> 0, log |-> <<>>]

\* handleRebalance at action i: await wallet.swap, or the return after the
\* last action.
AtAction(tick, i) ==
    IF i > Len(tick.actions)
    THEN [tick EXCEPT !.pc = "done", !.i = i]
    ELSE [tick EXCEPT !.pc = "swap", !.i = i]

\* Mutant of StartMonitoring: without `if (this.isMonitoring) return`.
StartMonitoringAgain ==
    /\ Cardinality(timers) < MaxTimers
    /\ \E timer \in (1..MaxTimers) \ timers :
          /\ isMonitoring' = TRUE
          /\ monitorInterval' = timer
          /\ timers' = timers \cup {timer}
    /\ UNCHANGED ticks
    /\ UNCHANGED nonMonitorVars

\* startMonitoring(intervalMs): it returns at once while monitoring, and
\* otherwise sets the flag and an interval timer.
StartMonitoring ==
    /\ Cardinality(timers) < MaxTimers
    /\ IF isMonitoring
         THEN UNCHANGED <<isMonitoring, monitorInterval, timers>>
         ELSE \E timer \in (1..MaxTimers) \ timers :
                 /\ isMonitoring' = TRUE
                 /\ monitorInterval' = timer
                 /\ timers' = timers \cup {timer}
    /\ UNCHANGED ticks
    /\ UNCHANGED nonMonitorVars

\* stopMonitoring()
StopMonitoring ==
    /\ IF monitorInterval # 0
       THEN /\ timers' = timers \ {monitorInterval}
            /\ monitorInterval' = 0
       ELSE UNCHANGED <<timers, monitorInterval>>
    /\ isMonitoring' = FALSE
    /\ UNCHANGED ticks
    /\ UNCHANGED nonMonitorVars

\* A set timer fires: the callback starts and calls checkRebalanceNeeded.
Tick ==
    /\ Len(ticks) < MaxTicks
    /\ \E timer \in timers : ticks' = Append(ticks, NewTick(timer))
    /\ UNCHANGED <<isMonitoring, monitorInterval, timers>>
    /\ UNCHANGED nonMonitorVars

\* await this.checkRebalanceNeeded(): true starts handleRebalance, false and
\* a rejection (caught by the callback) end the callback.
TickCheck ==
    \E t \in DOMAIN ticks :
        /\ ticks[t].pc = "check"
        /\ \E needsRebalance \in BOOLEAN :
              ticks' = [ticks EXCEPT ![t].pc =
                           IF needsRebalance THEN "actions" ELSE "done"]
        /\ UNCHANGED <<isMonitoring, monitorInterval, timers>>
        /\ UNCHANGED nonMonitorVars

\* handleRebalance: await this.calculateRebalanceActions(), then the loop up
\* to its first swap.  A rejection is caught by the callback.
RebalanceActions ==
    \E t \in DOMAIN ticks :
        /\ ticks[t].pc = "actions"
        /\ \/ \E actions \in RebalanceActionLists :
                 ticks' = [ticks EXCEPT ![t] =
                    AtAction([ticks[t] EXCEPT !.actions = actions],
                             NextKnown(actions, 1))]
           \/ ticks' = [ticks EXCEPT ![t].pc = "done"]
        /\ UNCHANGED <<isMonitoring, monitorInterval, timers>>
        /\ UNCHANGED nonMonitorVars

\* handleRebalance: await this.wallet.swap(...).  AgentWallet.swap returns
\* success or failure, or throws without a loaded wallet, which ends
\* handleRebalance and is caught by the callback.
RebalanceSwap ==
    \E t \in DOMAIN ticks :
        /\ ticks[t].pc = "swap"
        /\ \E outcome \in {"success", "failed", "thrown"} :
              ticks' = [ticks EXCEPT
                 ![t].log = Append(@, [event |-> "swap", action |-> ticks[t].i]),
                 ![t].pc = IF outcome = "thrown" THEN "done" ELSE "delay"]
        /\ UNCHANGED <<isMonitoring, monitorInterval, timers>>
        /\ UNCHANGED nonMonitorVars

\* handleRebalance: await new Promise(r => setTimeout(r, 1000)), then the loop
\* up to the next swap or the return.
RebalanceDelay ==
    \E t \in DOMAIN ticks :
        /\ ticks[t].pc = "delay"
        /\ ticks' = [ticks EXCEPT ![t] =
              AtAction([ticks[t] EXCEPT !.log =
                           Append(@, [event |-> "delay", action |-> ticks[t].i])],
                       NextKnown(ticks[t].actions, ticks[t].i + 1))]
        /\ UNCHANGED <<isMonitoring, monitorInterval, timers>>
        /\ UNCHANGED nonMonitorVars

----------------------------------------------------------------------------
(* MarketDataClient: getToken, getTokenPrice, clearPriceCache              *)
(*                                                                         *)
(* Calls on one client may overlap: each is suspended at its awaits while  *)
(* other calls run.  Time is counted in units of 10 s.  A token is the     *)
(* registry's entry for its mint.                                          *)

\* PRICE_CACHE_TTL = 30000 ms
PRICE_CACHE_TTL == 3

\* The prices the price service can report.
Prices == {1, 2}

\* The Token built from the registry's answer for `mint`.
Token(mint) == [mint |-> mint, symbol |-> mint]

NewLookup(name, mint) ==
    [fn |-> name, mint |-> mint, pc |-> "fetch", start |-> now,
     entry |-> NoPriceEntry, hadToken |-> FALSE, known |-> FALSE,
     afterClear |-> FALSE, fetched |-> FALSE, outcome |-> "pending",
     price |-> 0, token |-> NoToken]

\* An earlier getToken(mint) has returned a token.
TokenKnown(mint) ==
    \E k \in DOMAIN lookups :
        /\ lookups[k].fn = "getToken" /\ lookups[k].mint = mint
        /\ lookups[k].outcome = "value"

\* cached && Date.now() - cached.timestamp < this.PRICE_CACHE_TTL
FreshAt(entry, time) == entry.cached /\ time - entry.timestamp < PRICE_CACHE_TTL

\* getToken(mint) up to its first await: the cache test, and the fetch it
\* issues on a miss.
GetToken ==
    /\ Len(lookups) < MaxCalls
    /\ \E mint \in Mints :
          LET call == [NewLookup("getToken", mint) EXCEPT
                          !.hadToken = tokenCache[mint] # NoToken,
                          !.known = TokenKnown(mint)]
          IN lookups' = Append(lookups,
                IF tokenCache[mint] # NoToken
                THEN [call EXCEPT !.pc = "done", !.outcome = "value",
                                  !.token = tokenCache[mint]]
                ELSE [call EXCEPT !.fetched = TRUE])
    /\ UNCHANGED <<now, tokenCache, priceCache, cleared>>
    /\ UNCHANGED nonMarketVars

\* getToken that stores an entry whatever the registry answered.
GetTokenFetchCachingFailures ==
    /\ \E i \in DOMAIN lookups :
          /\ lookups[i].fn = "getToken" /\ lookups[i].pc = "fetch"
          /\ \E answer \in {"ok", "notOk", "error"} :
                /\ lookups' = [lookups EXCEPT ![i] =
                      IF answer = "ok"
                      THEN [@ EXCEPT !.pc = "done", !.outcome = "value",
                                     !.token = Token(lookups[i].mint)]
                      ELSE [@ EXCEPT !.pc = "done", !.outcome = "null"]]
                /\ tokenCache' = [tokenCache EXCEPT ![lookups[i].mint] =
                                     Token(lookups[i].mint)]
    /\ UNCHANGED <<now, priceCache, cleared>>
    /\ UNCHANGED nonMarketVars

\* getToken after its fetch settled: an OK response is stored and returned,
\* a non-OK response and a network error return null.
GetTokenFetch ==
    /\ \E i \in DOMAIN lookups :
          /\ lookups[i].fn = "getToken" /\ lookups[i].pc = "fetch"
          /\ \E answer \in {"ok", "notOk", "error"} :
                IF answer = "ok"
                THEN /\ lookups' = [lookups EXCEPT ![i] =
                           [@ EXCEPT !.pc = "done", !.outcome = "value",
                                     !.token = Token(lookups[i].mint)]]
                     /\ tokenCache' = [tokenCache EXCEPT ![lookups[i].mint] =
                                          Token(lookups[i].mint)]
                ELSE /\ lookups' = [lookups EXCEPT ![i] =
                           [@ EXCEPT !.pc = "done", !.outcome = "null"]]
                     /\ UNCHANGED tokenCache
    /\ UNCHANGED <<now, priceCache, cleared>>
    /\ UNCHANGED nonMarketVars

\* getTokenPrice(mint) up to its first await: the cache test, and the fetch
\* it issues when the entry is missing or too old.
GetTokenPrice ==
    /\ Len(lookups) < MaxCalls
    /\ \E mint \in Mints :
          LET call == [NewLookup("getTokenPrice", mint) EXCEPT
                          !.entry = priceCache[mint],
                          !.afterClear = cleared]
          IN lookups' = Append(lookups,
                IF FreshAt(priceCache[mint], now)
                THEN [call EXCEPT !.pc = "done", !.outcome = "value",
                                  !.price = priceCache[mint].price]
                ELSE [call EXCEPT !.fetched = TRUE])
    /\ cleared' = FALSE
    /\ UNCHANGED <<now, tokenCache, priceCache>>
    /\ UNCHANGED nonMarketVars

\* getTokenPrice after its fetch settled and its body was read: a network
\* error, a non-OK response and a body without the mint return null.
PriceFetch ==
    /\ \E i \in DOMAIN lookups :
          /\ lookups[i].fn = "getTokenPrice" /\ lookups[i].pc = "fetch"
          /\ \/ lookups' = [lookups EXCEPT ![i] =
                   [@ EXCEPT !.pc = "done", !.outcome = "null"]]
             \/ \E p \in Prices :
                   lookups' = [lookups EXCEPT ![i] =
                      [@ EXCEPT !.pc = "token", !.price = p]]
    /\ UNCHANGED <<now, tokenCache, priceCache, cleared>>
    /\ UNCHANGED nonMarketVars

\* getTokenPrice after `await this.getToken(mint)` (which stores the token if
\* it had to fetch it and got it): the price is stored with the time of the
\* store and returned.
PriceToken ==
    /\ \E i \in DOMAIN lookups :
          /\ lookups[i].fn = "getTokenPrice" /\ lookups[i].pc = "token"
          /\ \E ok \in BOOLEAN :
                tokenCache' =
                   IF tokenCache[lookups[i].mint] = NoToken /\ ok
                   THEN [tokenCache EXCEPT ![lookups[i].mint] =
                            Token(lookups[i].mint)]
                   ELSE tokenCache
          /\ priceCache' = [priceCache EXCEPT ![lookups[i].mint] =
                [price |-> lookups[i].price, timestamp |-> now, cached |-> TRUE]]
          /\ lookups' = [lookups EXCEPT ![i] =
                [@ EXCEPT !.pc = "done", !.outcome = "value",
                          !.token = tokenCache'[lookups[i].mint]]]
    /\ UNCHANGED <<now, cleared>>
    /\ UNCHANGED nonMarketVars

\* clearPriceCache()
ClearPriceCache ==
    /\ priceCache' = [mint \in Mints |-> NoPriceEntry]
    /\ cleared' = TRUE
    /\ UNCHANGED <<now, tokenCache, lookups>>
    /\ UNCHANGED nonMarketVars

\* Ten seconds pass.
AdvanceClock ==
    /\ now < MaxClock
    /\ now' = now + 1
    /\ UNCHANGED <<tokenCache, priceCache, cleared, lookups>>
    /\ UNCHANGED nonMarketVars

----------------------------------------------------------------------------
(* PortfolioBuilderAgent over its lifetime: constructor, updateConfig and  *)
(* the calls analyzePortfolio, createExecutionPlan, executeAllocation and  *)
(* rebalanceIfNeeded, one after the other.  updateConfig can run while a   *)
(* call is suspended at an await.  The swap pipeline itself is the one of  *)
(* Spec; here only its being entered is recorded.                          *)

\* The keys the constructor and updateConfig are given in the model: the
\* three switches.
GivenKeys == {"autoExecute", "includeStocks", "dryRun"}

\* The configurations an agent can have: the switches either way, the two
\* amounts at their defaults.
BuilderConfigs ==
    [minTradeSize : {DEFAULT_CONFIG.minTradeSize},
     rebalanceThresholdPct : {DEFAULT_CONFIG.rebalanceThresholdPct},
     autoExecute : BOOLEAN,
     includeStocks : BOOLEAN,
     dryRun : BOOLEAN]

\* Partial<PortfolioBuilderConfig>: the keys given and their values (the
\* value of a key that is not given is immaterial and kept at the default).
PartialConfigs ==
    {[keys |-> K, values |-> [k \in ConfigKeys |->
                                 IF k \in K THEN v[k] ELSE DEFAULT_CONFIG[k]]] :
        K \in SUBSET GivenKeys, v \in BuilderConfigs}

\* The types of the plan's trades in the order executeAllocation runs them.
TradeTypes(p) ==
    LET sorted == SortByPriority(p.trades)
    IN  [i \in 1..Len(sorted) |-> sorted[i].type]

\* What createExecutionPlan can return under each configuration, as the
\* trade types in execution order, over the snapshots and profiles.
PlanOutcomes ==
    [cfg \in BuilderConfigs |->
        {TradeTypes(createExecutionPlan(portfolio, profile, cfg)) :
            portfolio \in Portfolios, profile \in ExecutionProfiles}]

\* What needsRebalancing can return for config.rebalanceThresholdPct, over the
\* snapshots and profiles.
RebalanceOutcomes ==
    [cfg \in BuilderConfigs |->
        {needsRebalancing(portfolio, analyzeProfile(profile),
                          [given |-> TRUE, value |-> cfg.rebalanceThresholdPct]) :
            portfolio \in ComparedPortfolios, profile \in ExecutionProfiles}]

\* Mutant of MergeConfig: the keys that are not given fall back to the
\* defaults.
MergeConfigFromDefaults(cfg, partial) ==
    [k \in ConfigKeys |->
        IF k \in partial.keys THEN partial.values[k] ELSE DEFAULT_CONFIG[k]]

\* { ...cfg, ...partial }
MergeConfig(cfg, partial) ==
    [k \in ConfigKeys |-> IF k \in partial.keys THEN partial.values[k] ELSE cfg[k]]

\* constructor(sdkConfig, builderConfig = {})
BuilderConstruct ==
    /\ ~builder.constructed
    /\ \E partial \in PartialConfigs :
          /\ config' = MergeConfig(DEFAULT_CONFIG, partial)
          /\ builder' = [builder EXCEPT
                !.constructed = TRUE,
                !.dryRunCleared = "dryRun" \in partial.keys /\ ~partial.values.dryRun]
    /\ UNCHANGED <<lastUpdate, builderCall, rebalance>>
    /\ UNCHANGED nonBuilderVars

\* updateConfig(config)
UpdateConfig ==
    /\ builder.constructed
    /\ \E partial \in PartialConfigs :
          /\ config' = MergeConfig(config, partial)
          /\ lastUpdate' = [keys |-> partial.keys, values |-> partial.values,
                            before |-> config]
          /\ builder' = [builder EXCEPT
                !.dryRunCleared =
                    @ \/ ("dryRun" \in partial.keys /\ ~partial.values.dryRun)]
    /\ UNCHANGED <<builderCall, rebalance>>
    /\ UNCHANGED nonBuilderVars

\* A method is called; each of the four first awaits the account's snapshot.
BuilderCall ==
    /\ builder.constructed
    /\ builderCall.name = "none"
    /\ builder.calls < MaxBuilderCalls
    /\ \E name \in {"analyzePortfolio", "createExecutionPlan",
                    "executeAllocation", "rebalanceIfNeeded"},
          signer \in BOOLEAN :
          /\ name # "rebalanceIfNeeded" => signer
          /\ builderCall' = [name |-> name,
                             pc |-> IF name = "rebalanceIfNeeded"
                                    THEN "portfolio" ELSE "plan",
                             signer |-> signer, trades |-> <<>>]
          /\ rebalance' = IF name = "rebalanceIfNeeded"
                             THEN [NoRebalance EXCEPT !.outcome = "called",
                                                      !.signer = signer]
                             ELSE rebalance
    /\ builder' = [builder EXCEPT !.calls = @ + 1]
    /\ UNCHANGED <<config, lastUpdate>>
    /\ UNCHANGED nonBuilderVars

\* Mutant of ShouldExecute: the signer is not asked for.
ShouldExecuteUnsigned(needed, signer, cfg) ==
    needed /\ cfg.autoExecute

\* rebalanceIfNeeded goes on to executeAllocation: neither
\* `if (!needsRebalancing)` nor `if (!signer || !this.config.autoExecute)`
\* returned.
ShouldExecute(needed, signer, cfg) ==
    needed /\ signer /\ cfg.autoExecute

\* rebalanceIfNeeded after `await this.sdk.getPortfolio(...)`: it rejects when
\* the snapshot could not be read, returns unless the portfolio needs
\* rebalancing, a signer was passed and autoExecute is set, and otherwise
\* calls executeAllocation.
RebalanceIfNeeded ==
    /\ builderCall.name = "rebalanceIfNeeded" /\ builderCall.pc = "portfolio"
    /\ \E needed \in RebalanceOutcomes[config], fetched \in BOOLEAN :
          IF ~fetched
            THEN /\ builderCall' = NoBuilderCall
                 /\ rebalance' = [rebalance EXCEPT !.outcome = "threw"]
            ELSE LET read == [rebalance EXCEPT !.needed = needed,
                                               !.autoExecute = config.autoExecute]
                 IN  IF ShouldExecute(needed, builderCall.signer, config)
                       THEN /\ builderCall' = [builderCall EXCEPT !.pc = "plan"]
                            /\ rebalance' = [read EXCEPT !.invoked = TRUE]
                       ELSE /\ builderCall' = NoBuilderCall
                            /\ rebalance' = [read EXCEPT !.outcome = "returned",
                                                         !.rebalanceNeeded = needed]
    /\ UNCHANGED <<config, builder, lastUpdate>>
    /\ UNCHANGED nonBuilderVars

\* rebalanceIfNeeded after its executeAllocation settled: it rejects with it,
\* or returns rebalanceNeeded: true with the executionResult.
RebalanceAfterExecution(r, name, settled, threw) ==
    IF name # "rebalanceIfNeeded" \/ ~settled THEN r
    ELSE IF threw THEN [r EXCEPT !.outcome = "threw"]
    ELSE [r EXCEPT !.outcome = "returned", !.rebalanceNeeded = TRUE,
                   !.executionResult = TRUE]

\* After the snapshot arrived: analyzePortfolio and createExecutionPlan
\* return; executeAllocation returns for an empty plan and in dry-run mode,
\* and otherwise enters its loop.
BuilderPlan ==
    /\ builderCall.pc = "plan"
    /\ \E trades \in PlanOutcomes[config], fetched \in BOOLEAN :
          /\ builderCall' =
               IF \/ ~fetched
                  \/ builderCall.name \in {"analyzePortfolio", "createExecutionPlan"}
                  \/ Len(trades) = 0
                  \/ IsDryRun(config)
               THEN NoBuilderCall
               ELSE [builderCall EXCEPT !.pc = "loop", !.trades = trades]
          /\ rebalance' = RebalanceAfterExecution(rebalance, builderCall.name,
                              \/ ~fetched \/ Len(trades) = 0 \/ IsDryRun(config),
                              ~fetched)
    /\ UNCHANGED <<config, builder, lastUpdate>>
    /\ UNCHANGED nonBuilderVars

\* One iteration of the loop of executeAllocation: a swap enters the swap
\* pipeline, a stock trade fails on the spot; after the last one the snapshot
\* is read again and the call returns or rejects.
BuilderTrade ==
    /\ builderCall.pc = "loop"
    /\ builder' = [builder EXCEPT !.swapsStarted =
                      IF Head(builderCall.trades) = "swap" THEN @ + 1 ELSE @]
    /\ builderCall' = IF Len(builderCall.trades) = 1
                      THEN NoBuilderCall
                      ELSE [builderCall EXCEPT !.trades = Tail(@)]
    /\ \E fetched \in BOOLEAN :
          rebalance' =
             RebalanceAfterExecution(
                 IF builderCall.name = "rebalanceIfNeeded"
                   THEN [rebalance EXCEPT !.attempted = @ + 1] ELSE rebalance,
                 builderCall.name, Len(builderCall.trades) = 1, ~fetched)
    /\ UNCHANGED <<config, lastUpdate>>
    /\ UNCHANGED nonBuilderVars

----------------------------------------------------------------------------
(* AgentWallet: createWallet, loadWallet, getAddress, getPortfolio, swap   *)
(*                                                                         *)
(* Calls on one wallet object may overlap: createWallet, loadWallet,       *)
(* getPortfolio and swap are suspended at their network requests.          *)

\* The wallets the custody service knows or creates: id and address.
Wallets == {[id |-> "w1", address |-> "a1"], [id |-> "w2", address |-> "a2"]}

\* A method call on the wallet: the fields as the call read them when it
\* started, the network requests it has issued, and how it ended.
NewWalletOp(name, arg) ==
    [name |-> name, arg |-> arg, pc |-> "start", idAtCall |-> walletId,
     addressAtCall |-> walletAddress, network |-> 0, outcome |-> "pending"]

\* Mutant of LoadedFields: the id is stored before the answer is examined.
LoadedFieldsIdFirst(id, address, ok, wallet) ==
    IF ok THEN <<wallet.id, wallet.address>> ELSE <<wallet.id, address>>

\* walletId and walletAddress after the answer to createWallet / loadWallet:
\* both are assigned from the answer, and a failed request throws before.
LoadedFields(id, address, ok, wallet) ==
    IF ok THEN <<wallet.id, wallet.address>> ELSE <<id, address>>

\* createWallet() and loadWallet(walletId) up to their fetch.
WalletRequest ==
    /\ Len(walletOps) < MaxWalletOps
    /\ \E name \in {"createWallet", "loadWallet"}, wallet \in Wallets :
          walletOps' = Append(walletOps,
             [NewWalletOp(name, IF name = "loadWallet" THEN wallet.id ELSE "")
                 EXCEPT !.pc = "fetch", !.network = 1])
    /\ UNCHANGED <<walletId, walletAddress>>
    /\ UNCHANGED nonWalletVars

\* createWallet / loadWallet after the fetch: a failed request (a rejected
\* fetch, a non-2xx answer, a body that does not parse) throws; otherwise both
\* fields are assigned from the answer.
WalletAnswer ==
    \E k \in DOMAIN walletOps :
        /\ walletOps[k].pc = "fetch"
        /\ \E ok \in BOOLEAN, wallet \in Wallets :
              /\ walletOps[k].name = "loadWallet" => wallet.id = walletOps[k].arg
              /\ LET fields == LoadedFields(walletId, walletAddress, ok, wallet) IN
                  /\ walletId' = fields[1]
                  /\ walletAddress' = fields[2]
              /\ walletOps' = [walletOps EXCEPT
                    ![k].pc = "done",
                    ![k].outcome = IF ok THEN "returned" ELSE "failed"]
        /\ UNCHANGED nonWalletVars

\* getAddress(): synchronous.
GetAddress ==
    /\ Len(walletOps) < MaxWalletOps
    /\ walletOps' = Append(walletOps,
          [NewWalletOp("getAddress", "") EXCEPT
              !.pc = "done",
              !.outcome = IF walletAddress = "" THEN "No wallet loaded"
                          ELSE "returned"])
    /\ UNCHANGED <<walletId, walletAddress>>
    /\ UNCHANGED nonWalletVars

\* getPortfolio() up to its first request: getAddress() throws without a
\* wallet; swap(...) up to its first request: it throws unless both fields
\* are set.
WalletUse ==
    /\ Len(walletOps) < MaxWalletOps
    /\ \E name \in {"getPortfolio", "swap"} :
          LET loaded == IF name = "swap"
                          THEN walletId # "" /\ walletAddress # ""
                          ELSE walletAddress # ""
          IN  walletOps' = Append(walletOps,
                 IF loaded
                   THEN [NewWalletOp(name, "") EXCEPT !.pc = "rpc", !.network = 1]
                   ELSE [NewWalletOp(name, "") EXCEPT
                            !.pc = "done", !.outcome = "No wallet loaded"])
    /\ UNCHANGED <<walletId, walletAddress>>
    /\ UNCHANGED nonWalletVars

\* getPortfolio and swap after their requests: the balances or the
\* SwapResult are returned, or a request failed (getPortfolio rejects, swap
\* returns a failed SwapResult).
WalletUseDone ==
    \E k \in DOMAIN walletOps :
        /\ walletOps[k].pc = "rpc"
        /\ \E ok \in BOOLEAN :
              walletOps' = [walletOps EXCEPT
                    ![k].pc = "done",
                    ![k].outcome = IF ok THEN "returned" ELSE "failed"]
        /\ UNCHANGED <<walletId, walletAddress>>
        /\ UNCHANGED nonWalletVars

----------------------------------------------------------------------------

Next ==
    \/ ExecuteAllocationStart
    \/ TradeLoop
    \/ FinalPortfolio
    \/ TokenPrice
    \/ ResolveTokens
    \/ TradingQuote
    \/ TradingInstructions
    \/ TradingBuild
    \/ TradingSign
    \/ TradingSend
    \/ TradingConfirm
    \/ SwapStart
    \/ WalletQuote
    \/ WalletInstructions
    \/ WalletBuild
    \/ WalletSign
    \/ WalletSend
    \/ ClaudeSwapStart
    \/ ClaudeQuote
    \/ ClaudeInstructions
    \/ ClaudeBuild
    \/ ClaudeSign
    \/ ClaudeSend

Spec == Init /\ [][Next]_vars

\* The synchronous computations on their own.
PureNext ==
    \/ AnalyzePortfolio
    \/ AnalyzeProfile
    \/ CreateExecutionPlan
    \/ CalculateRebalanceActions
    \/ CheckRebalanceNeeded
    \/ CompareToTarget
    \/ NeedsRebalancing
    \/ CalculateHealthScore

PureSpec == Init /\ [][PureNext]_vars

\* waitForConfirmation on its own.  The event loop resumes the function when
\* the awaited request settles and when the timer fires.
ConfirmationNext ==
    \/ WaitForConfirmation
    \/ WaitPoll
    \/ WaitSleep

ConfirmationSpec ==
    Init /\ [][ConfirmationNext]_vars /\ WF_vars(WaitPoll) /\ WF_vars(WaitSleep)

\* The periodic monitor on its own.
MonitorNext ==
    \/ StartMonitoring
    \/ StopMonitoring
    \/ Tick
    \/ TickCheck
    \/ RebalanceActions
    \/ RebalanceSwap
    \/ RebalanceDelay

MonitorSpec == Init /\ [][MonitorNext]_vars

\* The market data client on its own.
MarketNext ==
    \/ GetToken
    \/ GetTokenFetch
    \/ GetTokenPrice
    \/ PriceFetch
    \/ PriceToken
    \/ ClearPriceCache
    \/ AdvanceClock

MarketSpec == Init /\ [][MarketNext]_vars

\* A builder agent over its lifetime.
BuilderNext ==
    \/ BuilderConstruct
    \/ UpdateConfig
    \/ BuilderCall
    \/ RebalanceIfNeeded
    \/ BuilderPlan
    \/ BuilderTrade

BuilderSpec == Init /\ [][BuilderNext]_vars

\* One AgentWallet over its lifetime.
WalletNext ==
    \/ WalletRequest
    \/ WalletAnswer
    \/ GetAddress
    \/ WalletUse
    \/ WalletUseDone

WalletSpec == Init /\ [][WalletNext]_vars

----------------------------------------------------------------------------
(* Vocabulary of the properties                                            *)

\* executeAllocation has returned an ExecutionResult.
Returned == op = "executeAllocation" /\ pc = "done"

\* executeAllocation has returned from a real (non-dry-run) execution.
ReturnedReal == Returned /\ ~config.dryRun /\ Len(plan.trades) > 0

\* The calls issued for trade t, in the order they were issued.
CallsOf(t) == SelectSeq(calls, LAMBDA c : c.trade = t)

TradesCalled == {calls[k].trade : k \in 1..Len(calls)}

StageOrder == <<"quote", "instructions", "build", "sign", "broadcast", "confirm">>

StagePos(stage) == CHOOSE k \in 1..Len(StageOrder) : StageOrder[k] = stage

TerminalStatus == {"completed", "failed"}

\* Sum of amountUsd over the completed steps.
RECURSIVE CompletedValue(_)
CompletedValue(s) ==
    IF s = <<>> THEN 0
    ELSE (IF Head(s).status = "completed" THEN Head(s).amountUsd ELSE 0)
         + CompletedValue(Tail(s))

----------------------------------------------------------------------------
(* Properties                                                              *)

\* C1: every ExecutionResult returned by executeAllocation has status
\* 'success' iff completed = attempted, 'failed' iff completed = 0 and
\* attempted > 0, and 'partial' otherwise.
C1_StatusFollowsCounts ==
    Returned =>
      LET done == result.totalTradesCompleted
          tried == result.totalTradesAttempted
      IN  /\ (result.status = "success") <=> (done = tried)
          /\ (result.status = "failed") <=> (done = 0 /\ tried > 0)
          /\ (result.status = "partial") <=> (done # tried /\ done > 0)

\* C2: in a real execution no failure stops the run: the result has one
\* step per planned trade, each for its trade and each brought to an end,
\* and a run with failed and completed steps is 'partial' and counts the
\* completed ones.
C2_EveryTradeAttempted ==
    ReturnedReal =>
      /\ Len(result.steps) = Len(plan.trades)
      /\ \A i \in 1..Len(result.steps) :
           /\ result.steps[i].asset = sortedTrades[i].toAsset
           /\ result.steps[i].amountUsd = sortedTrades[i].amountUsd
           /\ result.steps[i].status \in TerminalStatus
      /\ result.totalTradesCompleted = CountCompleted(result.steps)
      /\ ( (\E i \in 1..Len(result.steps) : result.steps[i].status = "failed")
           /\ (\E j \in 1..Len(result.steps) : result.steps[j].status = "completed") )
         => result.status = "partial"

\* C2 witness: a returned run whose first trade got a no-route answer and
\* failed at the quote stage, and whose second trade completed.
C2_Witness ==
    /\ ReturnedReal
    /\ Len(result.steps) >= 2
    /\ result.steps[1].status = "failed"
    /\ \E k \in 1..Len(calls) :
         /\ calls[k].trade = 1 /\ calls[k].stage = "quote"
         /\ calls[k].noRoute /\ ~calls[k].ok
    /\ result.steps[2].status = "completed"
    /\ result.status = "partial"
    /\ result.totalTradesCompleted = 1

\* C3: in dry-run mode with a non-empty plan no quote, instruction, signing
\* or broadcast call is ever issued, every returned step is 'pending' and
\* no trade is counted as completed.
C3_DryRunNoCalls ==
    (op = "executeAllocation" /\ config.dryRun) =>
      /\ calls = <<>>
      /\ pc \in {"done", "threw"}
      /\ (pc = "done" /\ Len(plan.trades) > 0) =>
           /\ Len(result.steps) = Len(plan.trades)
           /\ \A i \in 1..Len(result.steps) : result.steps[i].status = "pending"
           /\ result.totalTradesCompleted = 0

\* C3 witness: a dry run over a plan of at least two trades has returned.
C3_Witness ==
    /\ Returned /\ config.dryRun
    /\ Len(plan.trades) >= 2
    /\ Len(result.steps) = Len(plan.trades)

\* C4: in every swap the stage calls are issued in the order quote,
\* instructions, (assembly), sign, broadcast, confirm, none skipped: each
\* call other than the quote comes right after the call of the stage
\* before it, and that call succeeded.
C4_StagesInOrder ==
    \A t \in TradesCalled :
      LET cs == CallsOf(t) IN
      \A k \in 1..Len(cs) :
        /\ cs[k].stage = StageOrder[k]
        /\ k > 1 => cs[k - 1].ok

\* C4 witness: the second trade of executeAllocation went through all the
\* stages and its confirmation was observed.
C4_Witness ==
    /\ op = "executeAllocation"
    /\ \E k \in 1..Len(calls) :
         calls[k].trade = 2 /\ calls[k].stage = "confirm" /\ calls[k].ok

\* C5: a swap operation returns success only for a transaction whose
\* confirmation was observed.
C5_SuccessOnlyAfterConfirmed ==
    /\ swapResult.status = "success" =>
         \E k \in 1..Len(calls) : calls[k].stage = "confirm" /\ calls[k].ok
    /\ \A i \in 1..Len(steps) :
         steps[i].result.status = "success" =>
           \E k \in 1..Len(calls) :
             calls[k].trade = i /\ calls[k].stage = "confirm" /\ calls[k].ok

\* C6: within one swap every stage call is issued at most once, no call
\* follows a failed one, and a trade with a failed call ends failed.
C6_NoRetryAfterFailure ==
    \A t \in TradesCalled :
      LET cs == CallsOf(t) IN
      /\ \A k, l \in 1..Len(cs) : cs[k].stage = cs[l].stage => k = l
      /\ \A k \in 1..Len(cs) : ~cs[k].ok => k = Len(cs)
      /\ (Len(cs) > 0 /\ ~cs[Len(cs)].ok) =>
           IF op = "executeAllocation"
             THEN t <= Len(steps) /\ steps[t].status = "failed"
             ELSE pc = "done" /\ swapResult.status = "failed"

\* C6 witness: a trade failed at the signing stage and the run went on to
\* the next trade.
C6_Witness ==
    /\ op = "executeAllocation"
    /\ idx >= 2
    /\ \E k \in 1..Len(calls) :
         calls[k].trade = 1 /\ calls[k].stage = "sign" /\ ~calls[k].ok
    /\ \E k \in 1..Len(calls) : calls[k].trade = 2

\* C7: a failure of any stage makes the swap return a failed result with an
\* error message, executeAllocation records it as the step's error, and
\* nothing is thrown because of it: executeAllocation rejects only before
\* the first trade or after the last one (the snapshot reads), a direct
\* swap only before its first call.
C7_StageFailuresAreRecorded ==
    /\ \A k \in 1..Len(calls) :
         ~calls[k].ok =>
           IF op = "executeAllocation"
             THEN /\ steps[calls[k].trade].status = "failed"
                  /\ steps[calls[k].trade].error # ""
                  /\ steps[calls[k].trade].result.status = "failed"
                  /\ Len(errors) >= 1
             ELSE /\ pc = "done"
                  /\ swapResult.status = "failed"
                  /\ swapResult.error # ""
    /\ pc = "threw" =>
         IF op = "executeAllocation"
           THEN idx = 0 \/ idx > Len(sortedTrades)
           ELSE calls = <<>>
    /\ ReturnedReal =>
         \A k \in 1..Len(calls) :
           ~calls[k].ok => result.steps[calls[k].trade].error # ""

\* C7 witness: executeAllocation returned a result in which a trade that
\* failed at the broadcast stage is a failed step with its error.
C7_Witness ==
    /\ ReturnedReal
    /\ \E k \in 1..Len(calls) :
         /\ calls[k].stage = "broadcast" /\ ~calls[k].ok
         /\ result.steps[calls[k].trade].status = "failed"
         /\ result.steps[calls[k].trade].error = "failed to send transaction"

\* C8: a quote answer with an error field or without an output amount
\* fails the swap at the quote stage: no later stage call is issued for
\* that trade, and the swap ends as a failure.
C8_NoRouteFailsAtQuote ==
    \A t \in TradesCalled :
      LET cs == CallsOf(t) IN
      cs[1].noRoute =>
        /\ Len(cs) = 1
        /\ IF op = "executeAllocation"
             THEN t < idx => steps[t].status = "failed"
             ELSE pc = "done" => swapResult.status = "failed"

\* C9: executeAllocation runs the trades one at a time in ascending
\* priority order: the loop visits strictly increasing priorities, at most
\* one step is executing, and when a call is issued for a trade every
\* earlier trade is completed or failed.
C9_SerialInPriorityOrder ==
    op = "executeAllocation" =>
      /\ \A i, j \in 1..Len(sortedTrades) :
           i < j => sortedTrades[i].priority < sortedTrades[j].priority
      /\ \A i \in 1..Len(steps) : steps[i].asset = sortedTrades[i].toAsset
      /\ Cardinality({i \in 1..Len(steps) : steps[i].status = "executing"}) <= 1
      /\ \A k \in 1..Len(calls) :
           /\ \A l \in 1..Len(calls) : k < l => calls[k].trade <= calls[l].trade
           /\ \A j \in 1..(calls[k].trade - 1) : steps[j].status \in TerminalStatus

\* C9 witness: the quote of the second trade has been requested.
C9_Witness ==
    /\ op = "executeAllocation"
    /\ \E k \in 1..Len(calls) : calls[k].trade = 2 /\ calls[k].stage = "quote"
    /\ sortedTrades[1].priority = 0 /\ sortedTrades[2].priority = 1

\* C10: in every returned ExecutionResult totalValueTraded is the sum of
\* amountUsd over the completed steps.
C10_ValueTradedIsCompletedValue ==
    Returned => result.totalValueTraded = CompletedValue(result.steps)

----------------------------------------------------------------------------
(* Vocabulary of the plan properties                                       *)

\* |value / total * 100 - targetPct| <= threshold
PctWithin(value, total, targetPct, threshold) ==
    /\ ~PctAbove(value, total, targetPct, threshold)
    /\ ~PctBelow(value, total, targetPct, threshold)

\* The target percentages createExecutionPlan was applied with.
PlanTarget == analyzeProfile(args.userProfile)

\* Every category of the snapshot createExecutionPlan was applied to deviates
\* from its target by at most the configured threshold.
BuilderWithinThreshold ==
    \A c \in Categories :
        PctWithin(args.portfolio[c], args.portfolio.totalValueUsd, PlanTarget[c],
                  args.config.rebalanceThresholdPct)

\* The same for the state calculateRebalanceActions was applied to.
ManagerWithinThreshold ==
    \A k \in DOMAIN args.targetAllocation :
        PctWithin(args.state.valueUsd[args.targetAllocation[k].symbol],
                  args.state.totalValueUsd, args.targetAllocation[k].targetPct,
                  args.config.rebalanceThresholdPct)

\* C11: when every category's |deviationPct| is at most the configured
\* rebalance threshold, the plan generator (createExecutionPlan and
\* calculateRebalanceActions) emits zero trades, whatever the total value.
C11_WithinThresholdNoTrades ==
    /\ (fn = "createExecutionPlan" /\ BuilderWithinThreshold) => ret.trades = <<>>
    /\ (fn = "calculateRebalanceActions" /\ ManagerWithinThreshold) => ret = <<>>

\* C11 restricted to calculateRebalanceActions (which does hold).
ManagerWithinThresholdNoTrades ==
    (fn = "calculateRebalanceActions" /\ ManagerWithinThreshold) => ret = <<>>

\* targets[c] - current[c] for the snapshot createExecutionPlan was applied to.
BuilderDelta(c) ==
    (PlanTarget[c] * args.portfolio.totalValueUsd) \div 100 - args.portfolio[c]

\* The asset createExecutionPlan trades a category through.
CategoryAsset(c) ==
    CASE c = "sol" -> "SOL" [] c = "otherTokens" -> "WBTC"
      [] c = "stocks" -> "AAPL" [] OTHER -> "USDC"

\* The categories createExecutionPlan has a block of trades for.
TradedCategories == {"sol", "otherTokens", "stocks"}

\* currentValueUsd - targetValueUsd of the k-th target of the manager.
ManagerDiff(k) ==
    args.state.valueUsd[args.targetAllocation[k].symbol]
      - (args.targetAllocation[k].targetPct * args.state.totalValueUsd) \div 100

\* C12: every emitted trade has amountUsd >= the configured minimum trade
\* size, and a category whose excess or deficit is positive but below the
\* minimum produces no trade, even when its deviation exceeds the threshold.
C12_NoTradeBelowMinimum ==
    /\ fn = "createExecutionPlan" =>
         /\ \A i \in DOMAIN ret.trades :
                ret.trades[i].amountUsd >= args.config.minTradeSize
         /\ \A c \in TradedCategories :
                (0 < Abs(BuilderDelta(c)) /\ Abs(BuilderDelta(c)) < args.config.minTradeSize)
                  => \A i \in DOMAIN ret.trades :
                         /\ ret.trades[i].fromAsset # CategoryAsset(c)
                         /\ ret.trades[i].toAsset # CategoryAsset(c)
    /\ fn = "calculateRebalanceActions" =>
         /\ \A i \in DOMAIN ret : ret[i].tradeUsd >= args.config.minTradeUsd
         /\ \A k \in DOMAIN args.targetAllocation :
                (0 < Abs(ManagerDiff(k)) /\ Abs(ManagerDiff(k)) < args.config.minTradeUsd)
                  => \A i \in DOMAIN ret :
                         /\ ret[i].fromSymbol # args.targetAllocation[k].symbol
                         /\ ret[i].toSymbol # args.targetAllocation[k].symbol

\* A plan with a trade, for a snapshot in which the base asset's deficit is
\* positive, below the minimum, and its deviation is over the threshold.
C12_Witness ==
    /\ fn = "createExecutionPlan"
    /\ 0 < BuilderDelta("sol")
    /\ BuilderDelta("sol") < args.config.minTradeSize
    /\ ~PctWithin(args.portfolio.sol, args.portfolio.totalValueUsd, PlanTarget.sol,
                  args.config.rebalanceThresholdPct)
    /\ ret.trades # <<>>

\* Sum of f[x] over the set S.
RECURSIVE SumOver(_, _)
SumOver(f, S) ==
    IF S = {} THEN 0
    ELSE LET x == CHOOSE y \in S : TRUE IN f[x] + SumOver(f, S \ {x})

\* Sum of all overweight categories' excess (current above target) of the
\* snapshot createExecutionPlan was applied to.
BuilderExcess ==
    SumOver([c \in Categories |-> IF BuilderDelta(c) < 0 THEN 0 - BuilderDelta(c) ELSE 0],
            Categories)

\* Sum of all underweight categories' deficit.
BuilderDeficit ==
    SumOver([c \in Categories |-> IF BuilderDelta(c) > 0 THEN BuilderDelta(c) ELSE 0],
            Categories)

\* Sum of the overweight / underweight target positions of the manager.
ManagerExcess ==
    SumOver([k \in DOMAIN args.targetAllocation |->
                IF ManagerDiff(k) > 0 THEN ManagerDiff(k) ELSE 0],
            DOMAIN args.targetAllocation)

ManagerDeficit ==
    SumOver([k \in DOMAIN args.targetAllocation |->
                IF ManagerDiff(k) < 0 THEN 0 - ManagerDiff(k) ELSE 0],
            DOMAIN args.targetAllocation)

\* Sum of the USD amounts of the manager's actions.
ManagerTraded == SumOver([i \in DOMAIN ret |-> ret[i].tradeUsd], DOMAIN ret)

\* C13: in every plan the sum of the emitted trades' USD amounts is at most
\* the sum of all overweight categories' excess and at most the sum of all
\* underweight categories' deficit.
C13_TradesConserveValue ==
    /\ fn = "createExecutionPlan" =>
         /\ SumAmountUsd(ret.trades) <= BuilderExcess
         /\ SumAmountUsd(ret.trades) <= BuilderDeficit
    /\ fn = "calculateRebalanceActions" =>
         /\ ManagerTraded <= ManagerExcess
         /\ ManagerTraded <= ManagerDeficit

\* C13 restricted to calculateRebalanceActions (which does hold).
ManagerTradesConserveValue ==
    fn = "calculateRebalanceActions" =>
         /\ ManagerTraded <= ManagerExcess
         /\ ManagerTraded <= ManagerDeficit

\* The snapshot createExecutionPlan was applied to has stablecoins overweight
\* and the base asset underweight by the same amount, above the minimum
\* trade size and the threshold, and the other categories on target.
BuilderOneOverOneUnder ==
    /\ fn = "createExecutionPlan"
    /\ BuilderDelta("sol") > args.config.minTradeSize
    /\ BuilderDelta("stablecoins") = 0 - BuilderDelta("sol")
    /\ BuilderDelta("otherTokens") = 0
    /\ BuilderDelta("stocks") = 0
    /\ ~PctWithin(args.portfolio.sol, args.portfolio.totalValueUsd, PlanTarget.sol,
                  args.config.rebalanceThresholdPct)

\* The manager's diff of the target position of `symbol`.
ManagerDiffOf(symbol) ==
    LET k == CHOOSE i \in DOMAIN args.targetAllocation :
                 args.targetAllocation[i].symbol = symbol
    IN  ManagerDiff(k)

\* The same situation for calculateRebalanceActions: USDC overweight and SOL
\* underweight by the same amount, every other target position on target.
ManagerOneOverOneUnder ==
    /\ fn = "calculateRebalanceActions"
    /\ args.targetAllocation # <<>>
    /\ ManagerDiffOf("USDC") > args.config.minTradeUsd
    /\ ManagerDiffOf("SOL") = 0 - ManagerDiffOf("USDC")
    /\ ManagerDiffOf("USDY") = 0
    /\ ManagerDiffOf("EURC") = 0
    /\ PctAbove(args.state.valueUsd.USDC, args.state.totalValueUsd,
                (CHOOSE t \in {args.targetAllocation[i] : i \in DOMAIN args.targetAllocation} :
                     t.symbol = "USDC").targetPct,
                args.config.rebalanceThresholdPct)

BuilderSingleTrade ==
    BuilderOneOverOneUnder =>
        ret.trades = <<Trade("swap", "USDC", "SOL", BuilderDelta("sol"), 0)>>

ManagerSingleTrade ==
    ManagerOneOverOneUnder =>
        ret = <<[type |-> "sell", fromSymbol |-> "USDC", toSymbol |-> "SOL",
                 tradeUsd |-> ManagerDiffOf("USDC")]>>

\* C14: with stablecoins the one overweight category and the base asset the
\* one underweight category, by the same USD amount, above the minimum trade
\* size and the threshold, the plan is exactly one trade from the stablecoin
\* asset to the base asset, of that amount, with priority 0 (first).
C14_OneOverOneUnderOneTrade ==
    BuilderSingleTrade /\ ManagerSingleTrade

\* ManagerSingleTrade for a manager whose threshold and minimum are not
\* configured as 0.
ManagerSingleTradeNonZero ==
    (/\ fn = "calculateRebalanceActions"
     /\ args.config.rebalanceThresholdPct # 0
     /\ args.config.minTradeUsd # 0) => ManagerSingleTrade

\* The block of createExecutionPlan that emitted a trade: 1 the base asset
\* (SOL), 2 the other tokens, 3 the stocks.
TradeBlock(trade) ==
    IF trade.type \in {"stock_buy", "stock_sell"} THEN 3
    ELSE IF "SOL" \in {trade.fromAsset, trade.toAsset} THEN 1
    ELSE 2

\* C15: in every plan of createExecutionPlan with n trades the priorities
\* are exactly 0..n-1 in emission order (no duplicates), and a base-asset
\* trade has a lower priority than an other-token trade, which has a lower
\* priority than a stock trade.
C15_PrioritiesFollowEmission ==
    fn = "createExecutionPlan" =>
        /\ \A i \in DOMAIN ret.trades : ret.trades[i].priority = i - 1
        /\ \A i, j \in DOMAIN ret.trades :
               TradeBlock(ret.trades[i]) < TradeBlock(ret.trades[j])
                   => ret.trades[i].priority < ret.trades[j].priority

\* A plan with a base-asset trade, an other-token trade and a stock trade.
C15_Witness ==
    /\ fn = "createExecutionPlan"
    /\ Len(ret.trades) = 3
    /\ {TradeBlock(ret.trades[i]) : i \in DOMAIN ret.trades} = {1, 2, 3}

\* C16: for every risk tolerance, time horizon and set of investment goals
\* the four allocation percentages returned by analyzeProfile sum to 100.
C16_AllocationsSumTo100 ==
    fn = "analyzeProfile" =>
        ret.stablecoins + ret.sol + ret.otherTokens + ret.stocks = 100

\* analyzeProfile returned for a profile that takes every adjustment.
C16_Witness ==
    /\ fn = "analyzeProfile"
    /\ args.profile.timeHorizon = "short"
    /\ {"income", "speculation"} \subseteq args.profile.investmentGoals
    /\ ret # getStrategy(args.profile.riskTolerance)

\* C17: needsRebalancing returns true iff at least one of the four
\* categories has |actualPct - targetPct| strictly greater than thresholdPct
\* (5 when the argument is left out); a deviation equal to the threshold
\* does not trigger.
C17_NeedsRebalancingIffOverThreshold ==
    fn = "needsRebalancing" =>
        (ret <=> \E c \in Categories :
                    Abs(args.portfolio.allocation[c] - args.targetAllocations[c])
                        > (IF args.thresholdPct.given THEN args.thresholdPct.value ELSE 5))

\* needsRebalancing returned false with the default threshold for a
\* portfolio whose largest deviation is exactly 5.
C17_Witness ==
    /\ fn = "needsRebalancing"
    /\ ~args.thresholdPct.given
    /\ \E c \in Categories :
           Abs(args.portfolio.allocation[c] - args.targetAllocations[c]) = 5
    /\ ret = FALSE

\* C18: compareToTarget returns exactly one entry for each of the four
\* categories, in the order stablecoins, sol, otherTokens, stocks, each with
\* deviationPct = actualPct - targetPct.
C18_CompareToTargetEntries ==
    fn = "compareToTarget" =>
        /\ Len(ret) = 4
        /\ <<ret[1].assetType, ret[2].assetType, ret[3].assetType, ret[4].assetType>>
             = <<"stablecoins", "sol", "otherTokens", "stocks">>
        /\ \A i \in 1..4 :
               /\ ret[i].actualPct = args.portfolio.allocation[ret[i].assetType]
               /\ ret[i].targetPct = args.targetAllocations[ret[i].assetType]
               /\ ret[i].deviationPct = ret[i].actualPct - ret[i].targetPct

\* compareToTarget returned entries with a positive and a negative deviation.
C18_Witness ==
    /\ fn = "compareToTarget"
    /\ \E i, j \in 1..4 : ret[i].deviationPct > 0 /\ ret[j].deviationPct < 0

\* Twice max(0, 100 - (sum of the target percentages) / 2) for the strategy
\* analyzePortfolio recommended.
TwiceExpectedEmptyScore ==
    LET t == ret.recommendedStrategy
        sum == t.stablecoins + t.sol + t.otherTokens + t.stocks
    IN  IF 200 - sum > 0 THEN 200 - sum ELSE 0

\* C19: for a portfolio with totalValueUsd = 0 the current percentage of
\* every category is 0, every deviation is the negative of its target, and
\* the health score is max(0, 100 - (sum of target percentages) / 2).
C19_EmptyPortfolioScore ==
    (fn = "analyzePortfolio" /\ args.portfolio.totalValueUsd = 0) =>
        /\ \A i \in DOMAIN ret.comparison :
               /\ ret.comparison[i].actualPct = 0
               /\ ret.comparison[i].deviationPct = 0 - ret.comparison[i].targetPct
        /\ 2 * ret.healthScore = TwiceExpectedEmptyScore

\* C19 for the strategies without a negative percentage.
EmptyPortfolioScoreOfValidTarget ==
    (/\ fn = "analyzePortfolio"
     /\ \A c \in Categories : ret.recommendedStrategy[c] >= 0)
        => C19_EmptyPortfolioScore

\* The (total deviation, score) pairs of calculateHealthScore.
HealthPoints ==
    { <<TotalDeviation(comparison), calculateHealthScore(comparison)>> :
        comparison \in Comparisons }

\* C20: calculateHealthScore is monotonically non-increasing in the total
\* absolute deviation (a larger sum of |deviationPct| never gives a larger
\* score) and returns exactly 100 when all deviations are 0.
C20_HealthScoreMonotone ==
    fn = "calculateHealthScore" =>
        /\ (\A i \in DOMAIN args.comparison : args.comparison[i].deviationPct = 0)
               => ret = 100
        /\ \A point \in HealthPoints :
               point[1] >= TotalDeviation(args.comparison) => point[2] <= ret

\* calculateHealthScore returned 100 for a comparison without deviation,
\* while a comparison with deviations scores strictly less.
C20_Witness ==
    /\ fn = "calculateHealthScore"
    /\ \A i \in DOMAIN args.comparison : args.comparison[i].deviationPct = 0
    /\ ret = 100
    /\ \E point \in HealthPoints : point[1] > 0 /\ point[2] < 100

----------------------------------------------------------------------------
(* Properties of waitForConfirmation                                        *)

WaitReturned == confirmation.pc = "done"

WaitSettled == confirmation.pc \in {"done", "threw"}

\* What a return of waitForConfirmation may say: true exactly for a final
\* status without error, false for a final status with an error and for a
\* timeout that elapsed before a final status was seen.
WaitReturnJustified ==
    WaitReturned =>
        /\ confirmation.returned \in BOOLEAN
        /\ confirmation.returned = TRUE <=>
              (IsFinal(confirmation.status) /\ ~confirmation.status.err)
        /\ confirmation.returned = FALSE <=>
              \/ IsFinal(confirmation.status) /\ confirmation.status.err
              \/ /\ ~IsFinal(confirmation.status)
                 /\ confirmation.elapsed >= confirmation.timeout

\* C21: waitForConfirmation always terminates, whatever answers the network
\* gives: every started call settles, and a call that returns gives true only
\* for a signature reported confirmed or finalized without error, false for
\* one reported confirmed or finalized with an error, and false once the
\* timeout has elapsed without a final status.
C21_WaitForConfirmationTerminates ==
    /\ [](WaitReturnJustified)
    /\ (confirmation.pc # "idle") ~> WaitSettled

\* The timeout elapsed after polls that never saw a final status.
C21_Witness ==
    /\ WaitReturned
    /\ confirmation.returned = FALSE
    /\ confirmation.status.confirmationStatus = "processed"
    /\ confirmation.timeout = DefaultConfirmTimeout
    /\ confirmation.elapsed >= DefaultConfirmTimeout

----------------------------------------------------------------------------
(* Properties of the confirmation stage of TradingClient.executeSwap        *)

\* The broadcast of trade i returned a signature.
Broadcast(i) ==
    \E k \in DOMAIN calls :
        calls[k].trade = i /\ calls[k].stage = "broadcast" /\ calls[k].ok

\* The confirmation stage of trade i was entered and did not report the
\* transaction confirmed.
ConfirmationFailed(i) ==
    \E k \in DOMAIN calls :
        calls[k].trade = i /\ calls[k].stage = "confirm" /\ ~calls[k].ok

\* C22: when the broadcast of a trade returned a signature and its
\* confirmation stage then failed, the failed SwapResult of that trade carries
\* the broadcast signature together with the confirmation error.
C22_FailedConfirmationKeepsSignature ==
    op = "executeAllocation" =>
        \A i \in DOMAIN steps :
            (Broadcast(i) /\ ConfirmationFailed(i)) =>
                /\ steps[i].result.status = "failed"
                /\ steps[i].result.error # ""
                /\ steps[i].result.signature = TxSignature(i)

\* The half of C22 that holds: a confirmation that reports an execution error
\* returns the signature with the error.
ExecutionErrorKeepsSignature ==
    op = "executeAllocation" =>
        \A i \in DOMAIN steps :
            (Broadcast(i) /\ ConfirmationFailed(i)
                /\ steps[i].result.error = "Transaction failed: err") =>
                steps[i].result.signature = TxSignature(i)

----------------------------------------------------------------------------
(* Properties of the pause between trades                                   *)

\* C23: in every multi-trade execution the fixed inter-trade delay elapses
\* after one trade's pipeline ends and before the next trade's quote is
\* requested: in the log of executeAllocation's external calls, a call for one
\* trade is never directly followed by the quote of another trade.
C23_InterTradeDelay ==
    op = "executeAllocation" =>
        \A k \in 2..Len(calls) :
            (calls[k].stage = "quote" /\ calls[k].trade # calls[k - 1].trade) =>
                calls[k - 1].stage = "delay"

\* The half of C23 that holds: in handleRebalance every swap but the first of
\* a run directly follows the delay after the swap before it.
HandleRebalanceDelays ==
    \A t \in DOMAIN ticks :
        \A k \in 2..Len(ticks[t].log) :
            ticks[t].log[k].event = "swap" => ticks[t].log[k - 1].event = "delay"

\* A run of handleRebalance that made two swaps.
HandleRebalanceTwoSwaps ==
    \E t \in DOMAIN ticks :
        Cardinality({k \in DOMAIN ticks[t].log : ticks[t].log[k].event = "swap"}) = 2

----------------------------------------------------------------------------
(* Properties of the periodic monitor                                       *)

\* The callbacks whose handleRebalance has started and not returned.
RebalancesRunning ==
    {t \in DOMAIN ticks : ticks[t].pc \in {"actions", "swap", "delay"}}

\* C24: the periodic monitor never has two rebalance runs in progress at the
\* same time, whatever the interval and the swap latencies.
C24_OneRebalanceAtATime == Cardinality(RebalancesRunning) <= 1

----------------------------------------------------------------------------
(* Properties of the market data client's caches                            *)

PriceLookups == {i \in DOMAIN lookups : lookups[i].fn = "getTokenPrice"}

TokenLookups == {i \in DOMAIN lookups : lookups[i].fn = "getToken"}

\* A getTokenPrice call issues no fetch exactly when it finds an entry for
\* its mint younger than the TTL, and then returns that entry's price.
CachedPriceExactlyWhenFresh ==
    \A i \in PriceLookups :
        /\ ~lookups[i].fetched <=> FreshAt(lookups[i].entry, lookups[i].start)
        /\ ~lookups[i].fetched =>
              /\ lookups[i].outcome = "value"
              /\ lookups[i].price = lookups[i].entry.price
              /\ lookups[i].start - lookups[i].entry.timestamp < PRICE_CACHE_TTL

\* The first getTokenPrice call after a clearPriceCache fetches.
FetchAfterClear ==
    \A i \in PriceLookups : lookups[i].afterClear => lookups[i].fetched

\* C25: getTokenPrice returns a cached price without fetching exactly when an
\* entry for the mint exists that is younger than the 30-second TTL, never
\* returns an entry at or beyond the TTL, and the next call after
\* clearPriceCache always fetches.
C25_PriceCacheTtlAndClear == CachedPriceExactlyWhenFresh /\ FetchAfterClear

\* A call served from an entry of age 20 s, and one that fetched because the
\* entry it found had reached the TTL.
CachedPriceWitness ==
    /\ \E i \in PriceLookups :
          /\ ~lookups[i].fetched
          /\ lookups[i].start - lookups[i].entry.timestamp = PRICE_CACHE_TTL - 1
    /\ \E i \in PriceLookups :
          /\ lookups[i].fetched /\ lookups[i].entry.cached
          /\ lookups[i].start - lookups[i].entry.timestamp = PRICE_CACHE_TTL

\* Every entry of the token cache was stored by a lookup that got the token.
TokenEntriesFromSuccesses ==
    \A mint \in Mints :
        tokenCache[mint] # NoToken =>
            \E i \in DOMAIN lookups :
                lookups[i].mint = mint /\ lookups[i].token = Token(mint)

\* C26: after one successful getToken(mint), every later getToken(mint) on the
\* client returns the same token without issuing a fetch; a lookup that fails
\* returns null and stores nothing, so a call that follows it fetches again.
C26_TokenCachedOnSuccessOnly ==
    /\ \A i \in TokenLookups :
          /\ lookups[i].known =>
                /\ ~lookups[i].fetched
                /\ lookups[i].outcome = "value"
                /\ \A k \in TokenLookups :
                      (k < i /\ lookups[k].mint = lookups[i].mint
                          /\ lookups[k].outcome = "value") =>
                          lookups[i].token = lookups[k].token
          /\ lookups[i].outcome = "null" =>
                lookups[i].fetched /\ lookups[i].token = NoToken
          /\ ~lookups[i].hadToken => lookups[i].fetched
    /\ TokenEntriesFromSuccesses

\* A failed lookup, then one that fetched the token, then one served from the
\* cache.
C26_Witness ==
    \E i, j, k \in TokenLookups :
        /\ i < j /\ j < k
        /\ lookups[i].outcome = "null"
        /\ lookups[j].fetched /\ lookups[j].outcome = "value"
        /\ lookups[k].known /\ ~lookups[k].fetched /\ lookups[k].outcome = "value"
        /\ lookups[k].token = lookups[j].token

----------------------------------------------------------------------------
(* Properties of the time horizon                                           *)

\* The profile with the same risk tolerance and goals and the long horizon.
LongHorizon(profile) == [profile EXCEPT !.timeHorizon = "long"]

\* C27: for every risk tolerance and set of goals, analyzeProfile with the
\* short time horizon yields a strictly larger stablecoin percentage than
\* with the long one.
C27_ShortHorizonMoreStablecoins ==
    (fn = "analyzeProfile" /\ args.profile.timeHorizon = "short") =>
        ret.stablecoins > analyzeProfile(LongHorizon(args.profile)).stablecoins

\* analyzeProfile returned for the short horizon of a profile whose long
\* horizon takes stablecoins below the base strategy.
C27_Witness ==
    /\ fn = "analyzeProfile"
    /\ args.profile.timeHorizon = "short"
    /\ args.profile.riskTolerance = "aggressive"
    /\ "speculation" \in args.profile.investmentGoals
    /\ ret.stablecoins = analyzeProfile(LongHorizon(args.profile)).stablecoins + 15

----------------------------------------------------------------------------
(* Properties of the builder's configuration                                *)

\* The swap pipeline has been entered, or the loop that enters it is running.
PipelineReached == builder.swapsStarted > 0 \/ builderCall.pc = "loop"

\* The configuration is what the last updateConfig call made of the one
\* before it: the keys it was given have the given values, the others are
\* unchanged.
UpdateChangedGivenKeysOnly ==
    lastUpdate # NoUpdate =>
        \A k \in ConfigKeys :
            config[k] = IF k \in lastUpdate.keys
                        THEN lastUpdate.values[k] ELSE lastUpdate.before[k]

\* C28: with the default configuration (dryRun true, autoExecute false) no
\* sequence of analyzePortfolio, createExecutionPlan, executeAllocation and
\* rebalanceIfNeeded calls reaches the swap pipeline; trades are executed only
\* after the constructor or updateConfig has set dryRun to false; and
\* updateConfig changes only the keys it is given.
C28_DefaultConfigNeverTrades ==
    /\ PipelineReached => builder.dryRunCleared
    /\ UpdateChangedGivenKeysOnly

\* An agent constructed with the defaults ran two calls without trading, and
\* traded after updateConfig({dryRun: false}).
C28_Witness ==
    /\ builder.swapsStarted > 0
    /\ builder.calls = MaxBuilderCalls
    /\ lastUpdate.keys = {"dryRun"}
    /\ lastUpdate.before = DEFAULT_CONFIG
    /\ ~config.dryRun /\ ~config.autoExecute

----------------------------------------------------------------------------
(* C29: the output amount of a swap result                                 *)

\* The quote stage of trade i accepted an answer, with or without outAmount.
QuoteAccepted(i) ==
    \E k \in DOMAIN calls :
        calls[k].trade = i /\ calls[k].stage = "quote" /\ calls[k].ok

\* The quote stage of trade i accepted an answer that carries an outAmount.
QuotedAmountAccepted(i) ==
    \E k \in DOMAIN calls :
        /\ calls[k].trade = i /\ calls[k].stage = "quote"
        /\ calls[k].ok /\ ~calls[k].noRoute

\* `amount` is the out-amount of the quote of trade i (a number, either
\* divided by the output token's decimals or in base units).
IsQuotedAmount(amount, i) ==
    /\ ~amount.nan
    /\ amount.raw = OutAmount(i)
    /\ amount.unit \in {"tokens", "raw"}

\* `res` reports what C29 requires of the swap of trade i.
ReportsQuotedOrZero(res, i) ==
    /\ res.status = "success" => IsQuotedAmount(res.outputAmount, i)
    /\ res.status = "failed" => res.outputAmount = ZeroAmount

\* C29: the output amount reported by a successful swap (TradingClient's
\* executeSwap inside executeAllocation, AgentWallet.swap) is the out-amount
\* of the quote accepted in the same invocation, and every failed swap result
\* reports an output amount of 0.
C29_OutputAmountFromAcceptedQuote ==
    /\ op = "executeAllocation" =>
          \A i \in DOMAIN steps :
              steps[i].type = "swap" => ReportsQuotedOrZero(steps[i].result, i)
    /\ (op = "swap" /\ pc = "done") => ReportsQuotedOrZero(swapResult, idx)

\* The part of C29 that holds: a failed result reports 0, AgentWallet.swap
\* reports its quote's out-amount as quoted, and TradingClient reports the
\* out-amount divided by the decimals whenever the accepted quote has one.
OutputAmountWhenQuoteHasOne ==
    /\ op = "executeAllocation" =>
          \A i \in DOMAIN steps :
              /\ steps[i].result.status = "failed" =>
                    steps[i].result.outputAmount = ZeroAmount
              /\ (steps[i].result.status = "success" /\ QuotedAmountAccepted(i)) =>
                    steps[i].result.outputAmount =
                        [raw |-> OutAmount(i), unit |-> "tokens", nan |-> FALSE]
              /\ steps[i].result.status = "success" => QuoteAccepted(i)
    /\ (op = "swap" /\ pc = "done") =>
          /\ swapResult.status = "failed" => swapResult.outputAmount = ZeroAmount
          /\ swapResult.status = "success" =>
                swapResult.outputAmount =
                    [raw |-> OutAmount(idx), unit |-> "raw", nan |-> FALSE]

\* A successful swap of executeAllocation reporting its quoted amount.
QuotedAmountReported ==
    /\ op = "executeAllocation"
    /\ \E i \in DOMAIN steps :
          /\ steps[i].result.status = "success"
          /\ IsQuotedAmount(steps[i].result.outputAmount, i)

----------------------------------------------------------------------------
(* C30: the steps of a returned execution                                  *)

\* Statuses of a step whose trade was not carried to an outcome.
OpenStatus == {"pending", "executing"}

\* C30: when a non-dry-run executeAllocation returns, every step it returns
\* is completed or failed and none is pending or executing, whatever the type
\* of its trade and whether or not the trade names a fromAsset: a stock trade
\* (no fromAsset) is failed and a swap carries the result of its swap.
C30_ReturnedStepsTerminal ==
    ReturnedReal =>
        \A i \in DOMAIN result.steps :
            /\ result.steps[i].status \in TerminalStatus
            /\ result.steps[i].status \notin OpenStatus
            /\ sortedTrades[i].fromAsset = "" => result.steps[i].status = "failed"
            /\ sortedTrades[i].fromAsset # "" =>
                  result.steps[i].result.status \in {"success", "failed"}

\* C30 witness: a returned non-dry-run execution with a step of a trade
\* without fromAsset (a stock trade) and a step of a swap with one.
C30_Witness ==
    /\ ReturnedReal
    /\ \E i \in DOMAIN result.steps :
          sortedTrades[i].fromAsset = "" /\ sortedTrades[i].type \in {"stock_buy", "stock_sell"}
    /\ \E j \in DOMAIN result.steps :
          /\ sortedTrades[j].fromAsset # "" /\ sortedTrades[j].type = "swap"
          /\ result.steps[j].status = "failed"

----------------------------------------------------------------------------
(* C31: the errors of a returned execution                                 *)

\* The entry of the errors list that belongs to a failed step.
ErrorEntry(step) ==
    IF step.type = "swap" THEN "swap failed: " \o step.error ELSE step.error

\* The entries that belong to the failed steps of `s`, in step order.
RECURSIVE FailedEntries(_)
FailedEntries(s) ==
    IF s = <<>> THEN <<>>
    ELSE (IF Head(s).status = "failed" THEN <<ErrorEntry(Head(s))>> ELSE <<>>)
         \o FailedEntries(Tail(s))

\* C31: in the result of a non-dry-run executeAllocation every failed step
\* carries a non-empty error message, a completed step carries none, and the
\* errors list holds exactly one entry for each failed step (its message) and
\* no entry for a completed step.
C31_OneErrorPerFailedStep ==
    ReturnedReal =>
        /\ \A i \in DOMAIN result.steps :
              /\ result.steps[i].status = "failed" => result.steps[i].error # ""
              /\ result.steps[i].status = "completed" => result.steps[i].error = ""
        /\ Len(result.errors) =
              Cardinality({i \in DOMAIN result.steps : result.steps[i].status = "failed"})
        /\ result.errors = FailedEntries(result.steps)

\* C31 witness: a returned execution with a completed step and a failed swap
\* step, whose errors list has the one entry of the failed step.
C31_Witness ==
    /\ ReturnedReal
    /\ \E i, j \in DOMAIN result.steps :
          /\ result.steps[i].status = "completed"
          /\ result.steps[j].status = "failed" /\ result.steps[j].type = "swap"
    /\ Len(result.errors) = 1

----------------------------------------------------------------------------
(* C32: checkRebalanceNeeded                                               *)

\* Some asset of the target allocation drifts from its target by more than
\* the threshold in force, an asset that is not held counting as 0 percent.
TargetAssetDrifted ==
    \E k \in DOMAIN args.targetAllocation :
        ~PctWithin(args.state.valueUsd[args.targetAllocation[k].symbol],
                   args.state.totalValueUsd, args.targetAllocation[k].targetPct,
                   ManagerThreshold(args.config))

\* C32: checkRebalanceNeeded returns true exactly when some asset of the
\* target allocation has |current percentage - target percentage| above the
\* threshold, a target asset that is not held counting with 0 percent.
C32_CheckRebalanceIffDrift ==
    fn = "checkRebalanceNeeded" => (ret <=> TargetAssetDrifted)

\* The part of C32 that holds: with a non-empty target allocation a true
\* answer means that some target asset has drifted.
CheckRebalanceTrueMeansDrift ==
    (fn = "checkRebalanceNeeded" /\ args.targetAllocation # <<>> /\ ret)
        => TargetAssetDrifted

\* An unheld target asset drifted beyond the threshold while every holding is
\* within it, in a portfolio that has value.
UnheldAssetDrifted ==
    /\ fn = "checkRebalanceNeeded"
    /\ args.state.totalValueUsd > 0
    /\ \E k \in DOMAIN args.targetAllocation :
          /\ args.state.valueUsd[args.targetAllocation[k].symbol] = 0
          /\ args.targetAllocation[k].targetPct > ManagerThreshold(args.config)
    /\ ~ret

----------------------------------------------------------------------------
(* C33: the actions of calculateRebalanceActions                           *)

\* The symbols of the target allocation calculateRebalanceActions was applied
\* with.
TargetSymbols ==
    {args.targetAllocation[k].symbol : k \in DOMAIN args.targetAllocation}

\* `symbol` is overweight: its excess is above the minimum trade and its
\* percentage is above its target by more than the threshold.
IsOverweight(symbol) ==
    /\ ManagerDiffOf(symbol) > ManagerMinTrade(args.config)
    /\ PctAbove(args.state.valueUsd[symbol], args.state.totalValueUsd,
                TargetOf(args.targetAllocation, symbol), ManagerThreshold(args.config))

\* `symbol` is underweight, likewise.
IsUnderweight(symbol) ==
    /\ 0 - ManagerDiffOf(symbol) > ManagerMinTrade(args.config)
    /\ PctBelow(args.state.valueUsd[symbol], args.state.totalValueUsd,
                TargetOf(args.targetAllocation, symbol), ManagerThreshold(args.config))

\* What is left of the excess of `symbol` before the i-th action.
RemainingExcess(symbol, i) ==
    ManagerDiffOf(symbol)
      - SumOver([j \in 1..(i - 1) |->
                    IF ret[j].fromSymbol = symbol THEN ret[j].tradeUsd ELSE 0],
                1..(i - 1))

\* What is left of the deficit of `symbol` before the i-th action.
RemainingDeficit(symbol, i) ==
    (0 - ManagerDiffOf(symbol))
      - SumOver([j \in 1..(i - 1) |->
                    IF ret[j].toSymbol = symbol THEN ret[j].tradeUsd ELSE 0],
                1..(i - 1))

\* C33: every action of calculateRebalanceActions sells an overweight asset
\* for an underweight one, its size is the smaller of the remaining excess
\* and the remaining deficit, no remaining excess or deficit ever becomes
\* negative, and without an overweight or without an underweight asset there
\* is no action.
C33_ActionsPairOverWithUnder ==
    fn = "calculateRebalanceActions" =>
        /\ \A i \in DOMAIN ret :
              LET excess == RemainingExcess(ret[i].fromSymbol, i)
                  deficit == RemainingDeficit(ret[i].toSymbol, i)
              IN  /\ ret[i].fromSymbol \in TargetSymbols
                  /\ ret[i].toSymbol \in TargetSymbols
                  /\ IsOverweight(ret[i].fromSymbol)
                  /\ IsUnderweight(ret[i].toSymbol)
                  /\ ret[i].tradeUsd <= excess /\ ret[i].tradeUsd <= deficit
                  /\ ret[i].tradeUsd \in {excess, deficit}
        /\ \A symbol \in TargetSymbols, i \in 1..(Len(ret) + 1) :
              /\ IsOverweight(symbol) => RemainingExcess(symbol, i) >= 0
              /\ IsUnderweight(symbol) => RemainingDeficit(symbol, i) >= 0
        /\ ( (\A symbol \in TargetSymbols : ~IsOverweight(symbol))
             \/ (\A symbol \in TargetSymbols : ~IsUnderweight(symbol)) ) => ret = <<>>

\* C33 witness: one overweight asset is sold for two underweight ones, the
\* second action taking what the first left of the excess.
C33_Witness ==
    /\ fn = "calculateRebalanceActions"
    /\ Len(ret) >= 2
    /\ ret[1].fromSymbol = ret[2].fromSymbol
    /\ ret[2].tradeUsd = RemainingExcess(ret[2].fromSymbol, 2)
    /\ ret[2].tradeUsd < RemainingDeficit(ret[2].toSymbol, 2)

----------------------------------------------------------------------------
(* C34: the range of the adjusted allocations                              *)

\* C34: each of the four percentages analyzeProfile returns lies in 0..100,
\* and a second call with the same profile returns the same allocations (the
\* predefined strategy is read, never written: the adjustments are applied to
\* a copy).
C34_AllocationsWithinRange ==
    fn = "analyzeProfile" =>
        /\ \A c \in Categories : ret[c] >= 0 /\ ret[c] <= 100
        /\ analyzeProfile(args.profile) = ret

\* The part of C34 that holds: no percentage is above 100, none is below -5,
\* and only otherTokens and stablecoins are ever negative.
AllocationsBoundedBelow ==
    fn = "analyzeProfile" =>
        \A c \in Categories :
            /\ ret[c] <= 100 /\ ret[c] >= 0 - 5
            /\ ret[c] < 0 => c \in {"otherTokens", "stablecoins"}

\* A cautious short-term income profile gets a negative otherTokens target.
NegativeOtherTokensTarget ==
    /\ fn = "analyzeProfile"
    /\ args.profile = [riskTolerance |-> "conservative", timeHorizon |-> "short",
                        investmentGoals |-> {"income"}]
    /\ ret.otherTokens = 0 - 5

----------------------------------------------------------------------------
(* C35: the plan can be paid for                                           *)

\* USD value of `asset` in the snapshot createExecutionPlan was applied to,
\* every stablecoin counted as USDC and every other token as WBTC.
HeldOf(asset) ==
    CASE asset = "USDC" -> args.portfolio.stablecoins
      [] asset = "SOL"  -> args.portfolio.sol
      [] asset = "WBTC" -> args.portfolio.otherTokens
      [] OTHER          -> 0

\* USD value of `asset` available to the i-th trade of the plan when the
\* trades before it succeeded: what is held, plus what they bought of it,
\* minus what they spent of it.
AvailableBefore(asset, i) ==
    HeldOf(asset)
      + SumOver([j \in 1..(i - 1) |->
                    IF ret.trades[j].toAsset = asset /\ ret.trades[j].type = "swap"
                      THEN ret.trades[j].amountUsd ELSE 0], 1..(i - 1))
      - SumOver([j \in 1..(i - 1) |->
                    IF ret.trades[j].fromAsset = asset
                      THEN ret.trades[j].amountUsd ELSE 0], 1..(i - 1))

\* C35: executing a plan of createExecutionPlan in priority order never
\* spends more of a source asset than is available at that point: for every
\* trade with a fromAsset, what is held of it plus what the earlier trades
\* produced minus what they spent is at least the trade's amountUsd.
C35_PlanIsFunded ==
    fn = "createExecutionPlan" =>
        \A i \in DOMAIN ret.trades :
            ret.trades[i].fromAsset # "" =>
                AvailableBefore(ret.trades[i].fromAsset, i) >= ret.trades[i].amountUsd

\* The part of C35 that holds: a trade that sells SOL or WBTC never sells
\* more than the snapshot holds of it.
SalesAreFunded ==
    fn = "createExecutionPlan" =>
        \A i \in DOMAIN ret.trades :
            ret.trades[i].fromAsset \in {"SOL", "WBTC"} =>
                AvailableBefore(ret.trades[i].fromAsset, i) >= ret.trades[i].amountUsd

\* A plan that buys SOL with USDC for a portfolio that holds no stablecoin.
UnfundedPurchase ==
    /\ fn = "createExecutionPlan"
    /\ args.portfolio.stablecoins = 0
    /\ Len(ret.trades) >= 1
    /\ ret.trades[1].fromAsset = "USDC" /\ ret.trades[1].toAsset = "SOL"

----------------------------------------------------------------------------
(* C36: rebalanceIfNeeded                                                  *)

\* C36: rebalanceIfNeeded calls executeAllocation only when needsRebalancing
\* returned true, a signer was passed and autoExecute is set; in every other
\* case it returns without an executionResult and no trade is attempted
\* during the call; and the rebalanceNeeded it returns is what
\* needsRebalancing returned.
C36_RebalanceExecutesOnlyWhenAllowed ==
    /\ rebalance.invoked =>
          rebalance.needed /\ rebalance.signer /\ rebalance.autoExecute
    /\ ~rebalance.invoked =>
          /\ rebalance.attempted = 0
          /\ ~rebalance.executionResult
          /\ ~(builderCall.name = "rebalanceIfNeeded" /\ builderCall.pc \in {"plan", "loop"})
    /\ rebalance.outcome = "returned" =>
          /\ rebalance.rebalanceNeeded = rebalance.needed
          /\ rebalance.executionResult <=> rebalance.invoked

\* C36 witness: a rebalanceIfNeeded call without a signer returned that a
\* rebalance is needed, with autoExecute set, and attempted nothing.
C36_Witness ==
    /\ rebalance.outcome = "returned"
    /\ rebalance.needed /\ rebalance.autoExecute /\ ~rebalance.signer
    /\ rebalance.rebalanceNeeded /\ ~rebalance.executionResult

\* A rebalanceIfNeeded call that executed trades returned its result.
RebalanceExecuted ==
    /\ rebalance.outcome = "returned"
    /\ rebalance.invoked /\ rebalance.attempted > 0 /\ rebalance.executionResult

----------------------------------------------------------------------------
(* C37: the monitoring timer                                               *)

\* The timer that is set is the one monitorInterval holds, and it is set
\* exactly while isMonitoring.
OneTimerWhileMonitoring ==
    /\ Cardinality(timers) <= 1
    /\ timers = IF isMonitoring THEN {monitorInterval} ELSE {}
    /\ isMonitoring <=> monitorInterval # 0

\* A step that starts a callback does so for the timer in force while
\* monitoring, and a step of a callback (its return and its caught rejection
\* included) leaves the timer and the flag as they are.
TicksOnlyWhileMonitoring ==
    /\ Len(ticks') > Len(ticks) =>
          /\ isMonitoring
          /\ ticks'[Len(ticks')].timer = monitorInterval
    /\ ticks' # ticks => UNCHANGED <<isMonitoring, monitorInterval, timers>>

\* C37: after any sequence of startMonitoring and stopMonitoring calls at
\* most one monitoring timer is set (a startMonitoring while monitoring sets
\* none), no callback starts after stopMonitoring, and a callback that ends
\* with a caught error leaves the timer set, so that the next tick comes.
C37_AtMostOneTimer ==
    /\ [](OneTimerWhileMonitoring)
    /\ [][TicksOnlyWhileMonitoring]_vars

\* The swap of the first callback threw (its handleRebalance ended after the
\* swap, without the delay that follows a returned swap).
FirstTickFailed ==
    /\ Len(ticks) >= 1
    /\ ticks[1].pc = "done"
    /\ ticks[1].log # <<>>
    /\ ticks[1].log[Len(ticks[1].log)].event = "swap"

\* C37 witness: monitoring was stopped and started again, the first callback
\* ended with an error, and a second callback is running for the timer now
\* in force.
C37_Witness ==
    /\ isMonitoring /\ timers = {monitorInterval}
    /\ FirstTickFailed
    /\ Len(ticks) = 2
    /\ ticks[1].timer # ticks[2].timer
    /\ ticks[2].timer = monitorInterval
    /\ ticks[2].pc = "check"

----------------------------------------------------------------------------
(* C38: the fields of an AgentWallet                                       *)

\* walletId and walletAddress are both unset, or they are the id and the
\* address of one wallet.
FieldsOfOneWallet ==
    \/ walletId = "" /\ walletAddress = ""
    \/ \E wallet \in Wallets : walletId = wallet.id /\ walletAddress = wallet.address

\* A getAddress, getPortfolio or swap call that found the fields unset ended
\* with 'No wallet loaded' and issued no network request.
UnloadedCallsFail ==
    \A k \in DOMAIN walletOps :
        (/\ walletOps[k].name \in {"getAddress", "getPortfolio", "swap"}
         /\ walletOps[k].idAtCall = "" /\ walletOps[k].addressAtCall = "")
        => /\ walletOps[k].outcome = "No wallet loaded"
           /\ walletOps[k].network = 0

\* The step in which a createWallet or loadWallet call fails leaves both
\* fields as they were.
FailedLoadKeepsFields ==
    (\E k \in DOMAIN walletOps :
        /\ walletOps[k].name \in {"createWallet", "loadWallet"}
        /\ walletOps[k].outcome = "pending"
        /\ walletOps'[k].outcome = "failed")
    => UNCHANGED <<walletId, walletAddress>>

\* C38: walletId and walletAddress are both unset or both set; while they
\* are unset getAddress, getPortfolio and swap fail with 'No wallet loaded'
\* without a network call; and a createWallet or loadWallet that fails leaves
\* both fields unchanged.
C38_WalletFieldsSetTogether ==
    /\ [](FieldsOfOneWallet /\ UnloadedCallsFail)
    /\ [][FailedLoadKeepsFields]_vars

\* C38 witness: a swap on the fresh object failed with 'No wallet loaded',
\* then a wallet was loaded, and a later loadWallet of another wallet failed
\* and left the fields of the first.
C38_Witness ==
    /\ Len(walletOps) = 3
    /\ walletOps[1].name = "swap" /\ walletOps[1].outcome = "No wallet loaded"
    /\ walletOps[2].name = "loadWallet" /\ walletOps[2].arg = "w1"
    /\ walletOps[2].outcome = "returned"
    /\ walletOps[3].name = "loadWallet" /\ walletOps[3].arg = "w2"
    /\ walletOps[3].outcome = "failed"
    /\ walletOps[3].idAtCall = "w1"
    /\ walletId = "w1" /\ walletAddress = "a1"

----------------------------------------------------------------------------
(* C39: stock trades                                                       *)

StockTypes == {"stock_buy", "stock_sell"}

\* The trades of the sorted plan that are stock trades.
StockTradesOf(trades) == {i \in DOMAIN trades : trades[i].type \in StockTypes}

\* C39: in a non-dry-run executeAllocation every stock_buy or stock_sell
\* trade ends as a failed step with the error 'Stock trading not yet
\* implemented' and without an external call, so the result of a plan that
\* contains a stock trade (includeStocks being set) never has status
\* 'success'.
C39_StockTradesFail ==
    (op = "executeAllocation" /\ ~config.dryRun) =>
        /\ \A i \in StockTradesOf(sortedTrades) :
              /\ i \in DOMAIN steps =>
                    /\ steps[i].status = "failed"
                    /\ steps[i].error = "Stock trading not yet implemented"
                    /\ steps[i].result = NoSwapResult
              /\ i \notin TradesCalled
        /\ StockTradesOf(sortedTrades) # {} => config.includeStocks
        /\ (pc = "done" /\ StockTradesOf(sortedTrades) # {}) =>
              /\ result.status # "success"
              /\ \A i \in StockTradesOf(sortedTrades) :
                    /\ result.steps[i].status = "failed"
                    /\ result.steps[i].error = "Stock trading not yet implemented"

\* C39 witness: a returned execution whose plan had a swap that completed
\* and a stock trade; the result is 'partial'.
C39_Witness ==
    /\ ReturnedReal
    /\ config.includeStocks
    /\ StockTradesOf(sortedTrades) # {}
    /\ \E j \in DOMAIN result.steps : result.steps[j].status = "completed"
    /\ result.status = "partial"

====
